---- MODULE Spec2Model ----
(***************************************************************************)
(* Content chunking and resilient assembly pipeline of the presentation    *)
(* generator: ContentChunker (content_chunker.py), ChunkJSONCompiler       *)
(* (chunk_json_compiler.py) and GroqPresentationGenerator                  *)
(* (presentation_generator.py).                                            *)
(*                                                                         *)
(* A text is a sequence of tokens: a word, or PB, the blank-line paragraph *)
(* break "\n\n".  Adjacent words are separated by one space.  Words are    *)
(* "w" (no final punctuation), "e." (ends a sentence) and "Mr." (one of    *)
(* the abbreviations _split_sentences rewrites); "Mr" is what the rewrite  *)
(* leaves.                                                                 *)
(***************************************************************************)
EXTENDS Integers, Sequences, FiniteSets, TLC

\* ------------------------------------------------------------------------
\* Bounds of the model
\* ------------------------------------------------------------------------
MaxLen == 5
MaxRep == 20
MaxBudget == 13

\* ------------------------------------------------------------------------
\* ContentChunker: configuration constants
\* ------------------------------------------------------------------------
\* TOKENS_PER_WORD = 1.3, kept as the fraction 13/10
TOKENS_PER_WORD_NUM == 13
TOKENS_PER_WORD_DEN == 10
SAFE_TOKEN_LIMIT == 1500
EMERGENCY_TOKEN_LIMIT == 1200
AUTO_CHUNK_THRESHOLD == 300
MIN_WORDS_PER_CHUNK == 50

PB == "PB"
Tokens == {"w", "e.", "Mr.", PB}

VARIABLES
    \* ContentChunker.chunk_content
    content,            \* the text given to chunk_content
    max_tokens,         \* self.max_tokens_per_chunk
    cpc,                \* position inside chunk_content
    chunks,             \* the chunk list of the current stage
    stagesRun           \* which stages of the cascade have run

VARIABLES
    \* ChunkJSONCompiler used on its own
    k_self,             \* the compiler object: topic, target_audience, tone
    k_lists,            \* chunk_slides_list
    k_overview,         \* overview_data (<<>> for None or an empty dict)
    k_doc,              \* the document compiled so far (<<>> before)
    k_input,            \* the document validate_compiled_json was called with
    kpc                 \* "start", "compiled", "validated"; for a document
                        \* validated on its own "loaded", "checked", "rejected"

VARIABLES
    \* GroqPresentationGenerator
    topic, raw_content, target_audience, tone, subject, num_slides, enable_chunking,
    chunking_arg,       \* the enable_chunking argument of the constructor
    pc,                 \* position inside generate()
    stack,              \* the methods generate() is inside of, outermost first
    gen_chunks,         \* chunks of _generate_chunked
    chunk_idx, retry_count, chunk_slides, all_chunk_slides,
    result,             \* the document generate() returned (<<>> before)
    error,              \* the exception generate() raised ("" if none)
    api_calls,          \* generation calls made so far
    chunker_calls,      \* calls of ContentChunker.chunk_content so far
    fallback_chunks,    \* chunks whose slides came from _generate_fallback_slides
    reply,              \* what the last generation call gave (kind "none" before)
    \* repair_json_string and the parse attempts that follow it
    r_text,             \* the extracted JSON text, a sequence of lexical units
    r_repaired,         \* what repair_json_string returned for it
    r_parsed,           \* which parse attempt succeeded, and the value it gave
    rpc,                \* "idle", "extracted", "repaired" or "parsed"
    \* GroqScriptGenerator._call_groq_api
    s_args,             \* its arguments max_tokens, chunk_index, total_chunks
    s_retry_count,      \* its local retry_count
    s_log,              \* what each chat.completions.create call so far gave
    s_waits,            \* the time.sleep durations so far, in seconds
    s_result,           \* the reply returned (<<>> before)
    s_error,            \* the exception raised to the caller ("" if none)
    spc,                \* "idle", "calling", "returned" or "raised"
    \* GroqScriptGenerator._generate_scripts_chunked
    script_slides,      \* the slides argument; a slide is known by its index
    script_chunk_idx,   \* chunk_idx of the loop: the chunks done so far
    all_scripts, failed_chunks,
    attempts,           \* the generation calls made so far, one record each
    script_result,      \* the dictionary returned (<<>> before)
    gpc                 \* "idle", "loop" or "returned"

chunkerVars == <<content, max_tokens, cpc, chunks, stagesRun>>
inputVars == <<topic, raw_content, target_audience, tone, subject, num_slides, chunking_arg>>
loopVars == <<gen_chunks, chunk_idx, retry_count, chunk_slides, all_chunk_slides, fallback_chunks>>
generatorVars == <<inputVars, enable_chunking, pc, stack, loopVars, result, error,
                   api_calls, chunker_calls, reply>>
compilerVars == <<k_self, k_lists, k_overview, k_doc, k_input, kpc>>
repairVars == <<r_text, r_repaired, r_parsed, rpc>>
scriptVars == <<s_args, s_retry_count, s_log, s_waits, s_result, s_error, spc,
                script_slides, script_chunk_idx, all_scripts, failed_chunks, attempts,
                script_result, gpc>>
vars == <<chunkerVars, compilerVars, generatorVars, repairVars, scriptVars>>

\* ------------------------------------------------------------------------
\* Sequence helpers
\* ------------------------------------------------------------------------
RECURSIVE Flatten(_)
Flatten(ss) == IF ss = <<>> THEN <<>> ELSE Head(ss) \o Flatten(Tail(ss))

RECURSIVE JoinWith(_, _)
JoinWith(ss, sep) ==
    IF ss = <<>> THEN <<>>
    ELSE IF Len(ss) = 1 THEN ss[1]
    ELSE ss[1] \o sep \o JoinWith(Tail(ss), sep)

\* ' '.join(parts): the space between two words is implicit
JoinSpace(ss) == JoinWith(ss, <<>>)
\* '\n\n'.join(parts)
JoinPara(ss) == JoinWith(ss, <<PB>>)

\* text.split(): the whitespace-separated words
Words(text) == SelectSeq(text, LAMBDA t : t # PB)

\* s.strip(): drop leading and trailing whitespace
RECURSIVE LStrip(_)
LStrip(s) == IF s # <<>> /\ Head(s) = PB THEN LStrip(Tail(s)) ELSE s
RECURSIVE RStrip(_)
RStrip(s) == IF s # <<>> /\ s[Len(s)] = PB THEN RStrip(SubSeq(s, 1, Len(s) - 1)) ELSE s
Strip(s) == RStrip(LStrip(s))

\* content.split('\n\n')
RECURSIVE SplitOnPB(_, _)
SplitOnPB(text, cur) ==
    IF text = <<>> THEN <<cur>>
    ELSE IF Head(text) = PB THEN <<cur>> \o SplitOnPB(Tail(text), <<>>)
    ELSE SplitOnPB(Tail(text), Append(cur, Head(text)))

\* ------------------------------------------------------------------------
\* ContentChunker: pure methods
\* ------------------------------------------------------------------------
\* int(words * TOKENS_PER_WORD)
TokensOfWords(words) == (words * TOKENS_PER_WORD_NUM) \div TOKENS_PER_WORD_DEN

estimate_tokens(text) == TokensOfWords(Len(Words(text)))

\* the threshold taken as exclusive
should_auto_chunk_Exclusive(wordCount) == wordCount > AUTO_CHUNK_THRESHOLD

should_auto_chunk(wordCount) == wordCount >= AUTO_CHUNK_THRESHOLD

\* text.replace('Mr.', 'Mr').replace('Mrs.', 'Mrs').replace('Dr.', 'Dr')
ReplaceAbbrev(text) == [i \in 1..Len(text) |-> IF text[i] = "Mr." THEN "Mr" ELSE text[i]]

\* re.split(r'(?<=[.!?])\s+', text): cut at whitespace that follows a word
\* ending in . ! or ?; the whitespace run after the cut is consumed
RECURSIVE ReSplit(_, _)
ReSplit(text, cur) ==
    IF text = <<>> THEN <<cur>>
    ELSE IF Head(text) = "e." /\ Len(text) > 1
         THEN <<Append(cur, "e.")>> \o ReSplit(LStrip(Tail(text)), <<>>)
    ELSE ReSplit(Tail(text), Append(cur, Head(text)))

NonEmptyStripped(ss) ==
    LET stripped == [i \in 1..Len(ss) |-> Strip(ss[i])]
    IN  SelectSeq(stripped, LAMBDA s : s # <<>>)

_split_sentences(text) == NonEmptyStripped(ReSplit(ReplaceAbbrev(text), <<>>))

\* _chunk_by_words: at most target_words words per chunk
RECURSIVE WordLoop(_, _, _, _)
WordLoop(words, target_words, done, current) ==
    IF words = <<>> THEN (IF current # <<>> THEN Append(done, current) ELSE done)
    ELSE IF Len(current) >= target_words
         THEN WordLoop(Tail(words), target_words, Append(done, current), <<Head(words)>>)
         ELSE WordLoop(Tail(words), target_words, done, Append(current, Head(words)))

_chunk_by_words(text, limit) ==
    LET words == Words(text)
        target_words == (limit * TOKENS_PER_WORD_DEN * 9) \div (TOKENS_PER_WORD_NUM * 10)
    IN  IF words = <<>> THEN <<text>>
        ELSE WordLoop(words, target_words, <<>>, <<>>)

\* _chunk_by_sentences: greedy packing of sentences; st = [chunks, current, tokens]
RECURSIVE SentenceLoop(_, _, _)
SentenceLoop(sentences, limit, st) ==
    IF sentences = <<>>
    THEN (IF st.current # <<>> THEN Append(st.chunks, JoinSpace(st.current)) ELSE st.chunks)
    ELSE
      LET sentence == Head(sentences)
          sent_tokens == estimate_tokens(sentence)
          flushed == IF st.current # <<>> THEN Append(st.chunks, JoinSpace(st.current))
                     ELSE st.chunks
      IN  IF sent_tokens > limit
          THEN SentenceLoop(Tail(sentences), limit,
                   [chunks |-> flushed \o _chunk_by_words(sentence, limit),
                    current |-> <<>>, tokens |-> 0])
          ELSE IF st.tokens + sent_tokens <= limit
          THEN SentenceLoop(Tail(sentences), limit,
                   [chunks |-> st.chunks, current |-> Append(st.current, sentence),
                    tokens |-> st.tokens + sent_tokens])
          ELSE SentenceLoop(Tail(sentences), limit,
                   [chunks |-> flushed, current |-> <<sentence>>, tokens |-> sent_tokens])

_chunk_by_sentences(text, limit) ==
    LET sentences == _split_sentences(text)
    IN  IF sentences = <<>> THEN _chunk_by_words(text, limit)
        ELSE SentenceLoop(sentences, limit, [chunks |-> <<>>, current |-> <<>>, tokens |-> 0])

\* _chunk_by_paragraphs: greedy packing of paragraphs under 85% of the budget
RECURSIVE ParagraphLoop(_, _, _)
ParagraphLoop(paragraphs, safe_limit, st) ==
    IF paragraphs = <<>>
    THEN (IF st.current # <<>> THEN Append(st.chunks, JoinPara(st.current)) ELSE st.chunks)
    ELSE
      LET paragraph == Head(paragraphs)
          para_tokens == estimate_tokens(paragraph)
          flushed == IF st.current # <<>> THEN Append(st.chunks, JoinPara(st.current))
                     ELSE st.chunks
      IN  IF para_tokens > safe_limit
          THEN ParagraphLoop(Tail(paragraphs), safe_limit,
                   [chunks |-> flushed \o _chunk_by_sentences(paragraph, safe_limit),
                    current |-> <<>>, tokens |-> 0])
          ELSE IF st.tokens + para_tokens <= safe_limit
          THEN ParagraphLoop(Tail(paragraphs), safe_limit,
                   [chunks |-> st.chunks, current |-> Append(st.current, paragraph),
                    tokens |-> st.tokens + para_tokens])
          ELSE ParagraphLoop(Tail(paragraphs), safe_limit,
                   [chunks |-> flushed, current |-> <<paragraph>>, tokens |-> para_tokens])

_chunk_by_paragraphs(text, budget) ==
    LET safe_limit == (budget * 85) \div 100
        paragraphs == SelectSeq(SplitOnPB(text, <<>>), LAMBDA p : Strip(p) # <<>>)
    IN  IF paragraphs = <<>> THEN _chunk_by_sentences(text, safe_limit)
        ELSE ParagraphLoop(paragraphs, safe_limit,
                 [chunks |-> <<>>, current |-> <<>>, tokens |-> 0])

\* _validate_and_repair_chunks: chunks over the budget are re-chunked with the
\* emergency limit
RepairSubChunks(sub_chunks, budget, safe_limit) ==
    Flatten([i \in 1..Len(sub_chunks) |->
        IF estimate_tokens(sub_chunks[i]) > budget
        THEN _chunk_by_words(sub_chunks[i], safe_limit)
        ELSE <<sub_chunks[i]>>])

_validate_and_repair_chunks(cs, budget) ==
    LET safe_limit == (EMERGENCY_TOKEN_LIMIT * 85) \div 100
    IN  Flatten([i \in 1..Len(cs) |->
            IF estimate_tokens(cs[i]) <= budget
            THEN <<cs[i]>>
            ELSE RepairSubChunks(_chunk_by_sentences(cs[i], safe_limit), budget, safe_limit)])

\* _ensure_chunk_safety: forced word split of chunks still over the budget,
\* chunks under MIN_WORDS_PER_CHUNK words merged into their predecessor
RECURSIVE SafetyLoop(_, _, _)
SafetyLoop(cs, budget, safe_chunks) ==
    IF cs = <<>> THEN safe_chunks
    ELSE
      LET chunk == Head(cs)
          tokens == estimate_tokens(chunk)
          words == Len(Words(chunk))
          n == Len(safe_chunks)
      IN  IF tokens > budget
          THEN SafetyLoop(Tail(cs), budget,
                   safe_chunks \o _chunk_by_words(chunk, (EMERGENCY_TOKEN_LIMIT * 80) \div 100))
          ELSE IF words < MIN_WORDS_PER_CHUNK /\ safe_chunks # <<>>
          THEN SafetyLoop(Tail(cs), budget,
                   [safe_chunks EXCEPT ![n] = safe_chunks[n] \o chunk])
          ELSE SafetyLoop(Tail(cs), budget, Append(safe_chunks, chunk))

_ensure_chunk_safety(cs, budget) == SafetyLoop(cs, budget, <<>>)

\* ------------------------------------------------------------------------
\* chunk_content as a state machine: one step per stage of the cascade
\* ------------------------------------------------------------------------
RECURSIVE SeqsUpTo(_, _)
SeqsUpTo(S, n) ==
    IF n = 0 THEN {<<>>}
    ELSE LET shorter == SeqsUpTo(S, n - 1)
         IN  shorter \cup {Append(s, x) : s \in {t \in shorter : Len(t) = n - 1}, x \in S}


\* texts of any shape up to MaxLen tokens, and longer texts of one repeated
\* unit (single-word sentences, single-word paragraphs, unpunctuated words)
Contents ==
    SeqsUpTo(Tokens, MaxLen)
    \cup {Flatten([i \in 1..n |-> u]) : u \in {<<"e.">>, <<"w">>, <<"w", PB>>, <<"Mr.", "e.">>}, n \in 1..MaxRep}

ChunkerIdle ==
    /\ content = <<>>
    /\ max_tokens = SAFE_TOKEN_LIMIT
    /\ cpc = "idle"
    /\ chunks = <<>>
    /\ stagesRun = {}

CompilerIdle ==
    /\ k_self = [topic |-> "", target_audience |-> "", tone |-> ""]
    /\ k_lists = <<>>
    /\ k_overview = <<>>
    /\ k_doc = <<>>
    /\ k_input = <<>>
    /\ kpc = "idle"

GeneratorIdle ==
    /\ topic = "" /\ raw_content = <<>> /\ target_audience = "" /\ tone = ""
    /\ subject = "general" /\ num_slides = <<>> /\ enable_chunking = FALSE
    /\ chunking_arg = FALSE
    /\ pc = "idle" /\ stack = <<>>
    /\ gen_chunks = <<>> /\ chunk_idx = 0 /\ retry_count = 0
    /\ chunk_slides = <<>> /\ all_chunk_slides = <<>> /\ fallback_chunks = {}
    /\ result = <<>> /\ error = ""
    /\ api_calls = 0 /\ chunker_calls = 0
    /\ reply = [kind |-> "none"]

RepairIdle ==
    /\ r_text = <<>> /\ r_repaired = <<>> /\ r_parsed = <<>> /\ rpc = "idle"

ScriptIdle ==
    /\ s_args = [max_tokens |-> 0, chunk_index |-> 0, total_chunks |-> 0]
    /\ s_retry_count = 0 /\ s_log = <<>> /\ s_waits = <<>>
    /\ s_result = <<>> /\ s_error = "" /\ spc = "idle"
    /\ script_slides = <<>> /\ script_chunk_idx = 0 /\ all_scripts = <<>>
    /\ failed_chunks = <<>> /\ attempts = <<>> /\ script_result = <<>> /\ gpc = "idle"

ChunkerInit ==
    /\ CompilerIdle
    /\ GeneratorIdle
    /\ RepairIdle
    /\ ScriptIdle
    /\ content \in Contents
    /\ max_tokens \in 1..MaxBudget
    /\ cpc = "start"
    /\ chunks = <<>>
    /\ stagesRun = {}

\* a quick return that hands back the content without its last token
QuickReturn_DropsLast ==
    /\ cpc = "start"
    /\ estimate_tokens(content) <= max_tokens
    /\ chunks' = <<SubSeq(content, 1, Len(content) - 1)>>
    /\ cpc' = "returned"
    /\ UNCHANGED <<content, max_tokens, stagesRun, compilerVars, generatorVars, repairVars, scriptVars>>

\* chunk_content, lines 123-125: quick return
QuickReturn ==
    /\ cpc = "start"
    /\ estimate_tokens(content) <= max_tokens
    /\ chunks' = <<content>>
    /\ cpc' = "returned"
    /\ UNCHANGED <<content, max_tokens, stagesRun, compilerVars, generatorVars, repairVars, scriptVars>>

\* chunk_content, line 128
StageParagraphs ==
    /\ cpc = "start"
    /\ estimate_tokens(content) > max_tokens
    /\ chunks' = _chunk_by_paragraphs(content, max_tokens)
    /\ cpc' = "chunked"
    /\ stagesRun' = stagesRun \cup {"paragraphs"}
    /\ UNCHANGED <<content, max_tokens, compilerVars, generatorVars, repairVars, scriptVars>>

\* chunk_content, line 131
StageValidate ==
    /\ cpc = "chunked"
    /\ chunks' = _validate_and_repair_chunks(chunks, max_tokens)
    /\ cpc' = "validated"
    /\ stagesRun' = stagesRun \cup {"validate"}
    /\ UNCHANGED <<content, max_tokens, compilerVars, generatorVars, repairVars, scriptVars>>

\* chunk_content, lines 134-136
StageSafety ==
    /\ cpc = "validated"
    /\ chunks' = _ensure_chunk_safety(chunks, max_tokens)
    /\ cpc' = "returned"
    /\ stagesRun' = stagesRun \cup {"safety"}
    /\ UNCHANGED <<content, max_tokens, compilerVars, generatorVars, repairVars, scriptVars>>

ChunkerNext == QuickReturn \/ StageParagraphs \/ StageValidate \/ StageSafety

SpecChunker == ChunkerInit /\ [][ChunkerNext]_vars

\* ------------------------------------------------------------------------
\* Properties of chunk_content
\* ------------------------------------------------------------------------
\* C1 (Coverage): when chunk_content has returned, the words of the chunks,
\* concatenated in list order, are exactly the words of the input, in order:
\* no word dropped, altered, duplicated or reordered.
C1_Coverage == cpc = "returned" => Words(Flatten(chunks)) = Words(content)

\* C2 (Size bound): every chunk of the returned list has
\* estimate_tokens(chunk) <= max_tokens_per_chunk * 1.15, unless the chunk
\* is one single word.
C2_SizeBound ==
    cpc = "returned" =>
        \A i \in 1..Len(chunks) :
            \/ Len(Words(chunks[i])) = 1
            \/ estimate_tokens(chunks[i]) * 100 <= max_tokens * 115

\* ------------------------------------------------------------------------
\* Python dicts: functions from keys to values; a missing key is a key
\* outside the domain.  The empty dict is <<>>.
\* ------------------------------------------------------------------------
Has(d, k) == k \in DOMAIN d
Get(d, k, default) == IF k \in DOMAIN d THEN d[k] ELSE default
\* d with d[k] = v (assignment to a key, present or not)
Put(d, k, v) == [x \in DOMAIN d \cup {k} |-> IF x = k THEN v ELSE d[x]]
\* d.pop(k, None)
Pop(d, k) == [x \in DOMAIN d \ {k} |-> d[x]]

\* ------------------------------------------------------------------------
\* ChunkJSONCompiler
\* ------------------------------------------------------------------------
VALID_TYPES == {"title", "content", "section", "conclusion"}
REQUIRED_FIELDS == {"presentation_title", "topic", "target_audience", "tone", "slides"}

\* _normalize_slide, lines 120-149 (string bullets and dict visuals)
NormalizeVisuals(v) ==
    [icons |-> IF Get(v, "icons", <<>>) # <<>> THEN v["icons"] ELSE <<>>,
     symbols |-> IF Get(v, "symbols", <<>>) # <<>> THEN v["symbols"] ELSE <<>>]

_normalize_slide(slide, slide_number, chunk_index) ==
    [slide_number |-> slide_number,
     slide_type |-> Get(slide, "slide_type", "content"),
     title |-> Get(slide, "title", ""),
     subtitle |-> Get(slide, "subtitle", ""),
     bullets |-> IF Get(slide, "bullets", <<>>) # <<>> THEN slide["bullets"]
                 ELSE Get(slide, "slide_bullets", <<>>),
     speaker_notes |-> Get(slide, "speaker_notes", ""),
     visuals |-> NormalizeVisuals(IF Get(slide, "visuals", <<>>) # <<>> THEN slide["visuals"]
                                  ELSE Get(slide, "slide_visuals", <<>>))]

TitleSlide(self, chunk_count) ==
    [slide_number |-> 1,
     slide_type |-> "title",
     title |-> "Comprehensive Overview: " \o self.topic,
     subtitle |-> "Content compiled from " \o ToString(chunk_count) \o " major sections",
     bullets |-> <<>>,
     speaker_notes |-> "This presentation covers " \o self.topic \o " across "
                       \o ToString(chunk_count) \o " comprehensive sections.",
     visuals |-> [icons |-> <<"presentation">>, symbols |-> <<>>]]

ConclusionSlide(self, slide_number) ==
    [slide_number |-> slide_number,
     slide_type |-> "conclusion",
     title |-> "Conclusion & Key Takeaways",
     subtitle |-> self.topic \o " Summary",
     bullets |-> <<"Comprehensive coverage across all major sections",
                   "Integrated key findings into structured presentation",
                   "Ready for discussion and strategic decision-making",
                   "Actionable insights delivered through professional analysis">>,
     speaker_notes |-> "Thank you for reviewing this comprehensive presentation. We have covered all major aspects with professional analysis and detailed insights.",
     visuals |-> [icons |-> <<"checkmark">>, symbols |-> <<>>]]

\* the two nested loops of compile_chunk_slides, lines 66-73;
\* st = [all_slides, slide_number, chunk_index]
RECURSIVE CompileSlides(_, _)
CompileSlides(slides_of_chunk, st) ==
    IF slides_of_chunk = <<>> THEN st
    ELSE CompileSlides(Tail(slides_of_chunk),
             [st EXCEPT !.all_slides = Append(@, _normalize_slide(Head(slides_of_chunk),
                                                  st.slide_number, st.chunk_index)),
                        !.slide_number = @ + 1])

\* a compiler that forgets the slides of the first chunk
CompileChunks_SkipFirst(chunk_slides_list, st) ==
    IF chunk_slides_list = <<>> THEN st
    ELSE [st EXCEPT !.chunk_index = @ + 1]

RECURSIVE CompileChunks(_, _)
CompileChunks(chunk_slides_list, st) ==
    IF chunk_slides_list = <<>> THEN st
    ELSE CompileChunks(Tail(chunk_slides_list),
             [CompileSlides(Head(chunk_slides_list), st) EXCEPT !.chunk_index = @ + 1])

compile_chunk_slides(self, chunk_slides_list, chunk_count, overview_data) ==
    LET first == IF overview_data # <<>> THEN Put(overview_data, "slide_number", 1)
                 ELSE TitleSlide(self, chunk_count)
        st == CompileChunks(chunk_slides_list,
                  [all_slides |-> <<first>>, slide_number |-> 2, chunk_index |-> 1])
    IN  [presentation_title |-> self.topic \o " - Comprehensive Presentation",
         topic |-> self.topic,
         target_audience |-> self.target_audience,
         tone |-> self.tone,
         total_slides |-> st.slide_number - 1,
         slides |-> Append(st.all_slides, ConclusionSlide(self, st.slide_number)),
         metadata |-> [generated_with_chunking |-> TRUE,
                       number_of_chunks |-> chunk_count,
                       compilation_status |-> "unified"]]

\* validate_compiled_json raises ValueError, lines 162-170
ValidateRaises(json_data) ==
    \/ \E f \in REQUIRED_FIELDS : ~Has(json_data, f)
    \/ Get(json_data, "slides", <<>>) = <<>>

\* validate_compiled_json, lines 172-206 (titles, subtitles, notes and
\* bullets are strings already, so str() leaves them as they are)
\* the renumbering without the coercion of the slide type
ValidateSlide_KeepsType(slide, i) == Put(slide, "slide_number", i)

ValidateSlide(slide, i) ==
    LET numbered == Put(slide, "slide_number", i)
    IN  IF Get(numbered, "slide_type", "") \notin VALID_TYPES
        THEN Put(numbered, "slide_type", "content")
        ELSE numbered

CoerceSlide(slide) ==
    LET t == IF Has(slide, "title") THEN slide ELSE Put(slide, "title", "")
        u == IF Has(t, "subtitle") THEN t ELSE Put(t, "subtitle", "")
        b == IF Has(u, "bullets") THEN u ELSE Put(u, "bullets", <<>>)
    IN  IF Has(b, "speaker_notes") THEN b ELSE Put(b, "speaker_notes", "")

validate_compiled_json(json_data) ==
    LET slides == json_data["slides"]
        cleaned == [i \in 1..Len(slides) |-> CoerceSlide(ValidateSlide(slides[i], i))]
    IN  Put(Put(json_data, "slides", cleaned), "total_slides", Len(cleaned))

\* ------------------------------------------------------------------------
\* Slides as the model replies with them
\* ------------------------------------------------------------------------
SlideGood ==
    [slide_type |-> "content", title |-> "Neural networks", subtitle |-> "How they learn",
     bullets |-> <<"Layers of weighted units", "Trained by gradient descent",
                   "Need labelled examples", "Generalise to new inputs">>,
     speaker_notes |-> "Explain the basics"]
SlideIntro ==
    [type |-> "intro", title |-> "Introduction", bullets |-> <<>>]
SlideShort ==
    [slide_type |-> "content", title |-> "Training", subtitle |-> "",
     bullets |-> <<"", "only one point">>]
SlideLong ==
    [slide_type |-> "content", title |-> "Evaluation",
     bullets |-> <<"b1", "b2", "b3", "b4", "b5", "b6", "b7", "b8", "b9">>,
     slide_number |-> 7]
SlideAlt ==
    [slide_type |-> "summary", title |-> "Summary", slide_bullets |-> <<"alt one">>,
     slide_visuals |-> [icons |-> <<"chart">>], slide_number |-> 2]
SlideTitle ==
    [slide_type |-> "title", title |-> "Overview", subtitle |-> "A short tour", bullets |-> <<>>]

SlideChunky ==
    [slide_type |-> "Content", title |-> "Data", subtitle |-> "From Chunk 2",
     content |-> "This chunk shows how models learn. Ok. Large models need more examples than small ones",
     bullets |-> <<"  ", "None", " Clean data first ">>, chunk_idx |-> 2,
     speaker_notes |-> "Notes for the speaker"]

SlideCatalog == <<SlideGood, SlideIntro, SlideShort, SlideLong, SlideAlt, SlideTitle, SlideChunky>>

\* the slide lists of at most n slides: runs of consecutive catalog slides
SlideRuns(n) ==
    {<<>>} \cup {SubSeq(SlideCatalog, w[1], w[2]) :
                    w \in {v \in (1..Len(SlideCatalog)) \X (1..Len(SlideCatalog)) :
                              v[2] >= v[1] /\ v[2] - v[1] + 1 <= n}}

\* ------------------------------------------------------------------------
\* The compiler on its own: compile_chunk_slides, then validate_compiled_json
\* ------------------------------------------------------------------------
MaxLists == 2
MaxSlidesPerList == 2
Overviews == {<<>>, [title |-> "Supplied overview", bullets |-> <<>>]}

\* documents handed to validate_compiled_json on their own
RawDocuments ==
    LET DocFields == [presentation_title |-> "Test", topic |-> "Test Topic",
                      target_audience |-> "Technical", tone |-> "academic",
                      total_slides |-> 0]
    IN
    {Put(DocFields, "slides", l) : l \in SlideRuns(MaxSlidesPerList)}
    \cup {Pop(Put(DocFields, "slides", l), f) :
             l \in {<<>>, <<SlideGood>>}, f \in REQUIRED_FIELDS \ {"slides"}}
    \cup {DocFields}

CompilerInit ==
    /\ ChunkerIdle
    /\ GeneratorIdle
    /\ RepairIdle
    /\ ScriptIdle
    /\ k_self \in {[topic |-> "AI", target_audience |-> "Students", tone |-> "academic"]}
    /\ k_overview \in Overviews
    /\ k_input = <<>>
    /\ \/ /\ kpc = "start"
          /\ k_lists \in SeqsUpTo(SlideRuns(MaxSlidesPerList), MaxLists)
          /\ k_doc = <<>>
       \/ /\ kpc = "loaded"
          /\ k_lists = <<>>
          /\ k_doc \in RawDocuments

\* compile_chunk_slides(chunk_slides_list, chunk_count, overview_data)
Compile ==
    /\ kpc = "start"
    /\ k_doc' = compile_chunk_slides(k_self, k_lists, Len(k_lists), k_overview)
    /\ kpc' = "compiled"
    /\ UNCHANGED <<k_self, k_lists, k_overview, k_input, chunkerVars, generatorVars, repairVars, scriptVars>>

\* validate_compiled_json(json_data), on the compiled document or on a
\* document of its own: ValueError before anything is changed, or the
\* cleaned document
Validate ==
    /\ kpc \in {"compiled", "loaded"}
    /\ k_input' = k_doc
    /\ IF ValidateRaises(k_doc)
       THEN /\ k_doc' = k_doc
            /\ kpc' = "rejected"
       ELSE /\ k_doc' = validate_compiled_json(k_doc)
            /\ kpc' = IF kpc = "compiled" THEN "validated" ELSE "checked"
    /\ UNCHANGED <<k_self, k_lists, k_overview, chunkerVars, generatorVars, repairVars, scriptVars>>

CompilerNext == Compile \/ Validate

SpecCompiler == CompilerInit /\ [][CompilerNext]_vars

\* C6 (Assembly order): the compiled document is the title slide (the
\* supplied overview, or the synthesized one), then every slide of every
\* chunk in chunk order and in its internal order, then the conclusion
\* slide; nothing dropped, duplicated or reordered, numbered 1..N.
C6_AssemblyOrder ==
    kpc \in {"compiled", "validated"} =>
        LET SlideBullets(slide) ==
                IF Get(slide, "bullets", <<>>) # <<>> THEN slide["bullets"]
                ELSE Get(slide, "slide_bullets", <<>>)
            flat == Flatten(k_lists)
            s == k_doc["slides"]
            N == Len(s)
        IN  /\ N = Len(flat) + 2
            /\ s[1]["title"] = IF k_overview # <<>> THEN k_overview["title"]
                               ELSE "Comprehensive Overview: " \o k_self.topic
            /\ k_overview = <<>> => s[1]["slide_type"] = "title"
            /\ \A i \in 1..Len(flat) :
                   /\ s[i + 1]["title"] = Get(flat[i], "title", "")
                   /\ s[i + 1]["bullets"] = SlideBullets(flat[i])
            /\ s[N]["slide_type"] = "conclusion"
            /\ s[N]["title"] = "Conclusion & Key Takeaways"
            /\ \A i \in 1..N : s[i]["slide_number"] = i

\* C6 witness: two chunks, both with slides, compiled
C6_Witness ==
    /\ kpc = "compiled"
    /\ Len(k_lists) = 2
    /\ Len(k_lists[1]) = 2
    /\ Len(k_lists[2]) = 1
    /\ k_lists[1][1] # k_lists[1][2]

\* C10 (total_slides of compile_chunk_slides): the document returned by
\* compile_chunk_slides, before validation, has total_slides = len(slides).
C10_TotalSlides ==
    kpc = "compiled" => k_doc["total_slides"] = Len(k_doc["slides"])

\* C11 (validate_compiled_json postcondition): for a document with every
\* required field and a non-empty slide list the returned document has
\* slide_number = i on its i-th slide, total_slides = N and every slide_type
\* in the closed set, any other (or missing) value replaced by "content";
\* with a missing field or an empty slide list the call raises and the
\* document is as it was.
C11_ValidatePostcondition ==
    /\ kpc \in {"validated", "checked"} =>
          /\ \A f \in REQUIRED_FIELDS : Has(k_input, f)
          /\ k_input["slides"] # <<>>
          /\ Len(k_doc["slides"]) = Len(k_input["slides"])
          /\ k_doc["total_slides"] = Len(k_doc["slides"])
          /\ \A i \in 1..Len(k_doc["slides"]) :
                LET before == k_input["slides"][i]
                    after == k_doc["slides"][i]
                IN  /\ Has(after, "slide_number") /\ after["slide_number"] = i
                    /\ Has(after, "slide_type")
                    /\ after["slide_type"] \in {"title", "content", "section", "conclusion"}
                    /\ after["slide_type"] =
                          IF Has(before, "slide_type")
                             /\ before["slide_type"] \in {"title", "content", "section", "conclusion"}
                          THEN before["slide_type"] ELSE "content"
    /\ kpc = "rejected" =>
          /\ \/ \E f \in REQUIRED_FIELDS : ~Has(k_input, f)
             \/ k_input["slides"] = <<>>
          /\ k_doc = k_input

\* C11 witness: a document of its own with a wrongly numbered slide and a
\* slide of an unknown type has been validated
C11_Witness ==
    /\ kpc = "checked"
    /\ k_input["slides"] = <<SlideLong, SlideAlt>>
    /\ k_doc["slides"][2]["slide_type"] = "content"

\* ------------------------------------------------------------------------
\* GroqPresentationGenerator: slide normalisation
\* Strings of the model carry no '.', no upper-case kind other than those
\* of LowerCase, no more than 15 words, and no blanks at their ends other
\* than the all-blank strings of BlankStrings.
\* ------------------------------------------------------------------------
MIN_BULLETS == 4
MAX_BULLETS == 6

\* characters of a Python str, one-character strings
IsSpace(c) == c \in {" ", "\n", "\t"}

\* str(b).strip()
StripStr(b) ==
    LET n == Len(b)
        inner(i) == ~IsSpace(SubSeq(b, i, i))
    IN  IF \A i \in 1..n : ~inner(i) THEN ""
        ELSE SubSeq(b, CHOOSE i \in 1..n : inner(i) /\ \A j \in 1..(i - 1) : ~inner(j),
                       CHOOSE i \in 1..n : inner(i) /\ \A j \in (i + 1)..n : ~inner(j))

LowerChar(c) ==
    LET UPPER == "ABCDEFGHIJKLMNOPQRSTUVWXYZ"
        LOWER == "abcdefghijklmnopqrstuvwxyz"
    IN
    IF \E i \in 1..Len(UPPER) : SubSeq(UPPER, i, i) = c
    THEN LET i == CHOOSE i \in 1..Len(UPPER) : SubSeq(UPPER, i, i) = c
         IN  SubSeq(LOWER, i, i)
    ELSE c

\* str.lower()
RECURSIVE LowerFrom(_, _)
LowerFrom(t, i) ==
    IF i > Len(t) THEN "" ELSE LowerChar(SubSeq(t, i, i)) \o LowerFrom(t, i + 1)
LowerCase(t) == LowerFrom(t, 1)

\* 'chunk' in text.lower()
MentionsChunk(text) ==
    \E i \in 1..(Len(text) - 4) :
        /\ SubSeq(text, i, i) \in {"c", "C"}
        /\ SubSeq(text, i + 1, i + 1) \in {"h", "H"}
        /\ SubSeq(text, i + 2, i + 2) \in {"u", "U"}
        /\ SubSeq(text, i + 3, i + 3) \in {"n", "N"}
        /\ SubSeq(text, i + 4, i + 4) \in {"k", "K"}

\* str.split(sep) for a one-character sep: the pieces between the separators
SplitChar(text, seps) ==
    LET n == Len(text)
        cuts == {0, n + 1} \cup {i \in 1..n : SubSeq(text, i, i) \in seps}
        cut == [j \in 1..Cardinality(cuts) |->
                   CHOOSE c \in cuts : Cardinality({d \in cuts : d < c}) = j - 1]
    IN  [j \in 1..(Cardinality(cuts) - 1) |->
            IF cut[j] + 1 > cut[j + 1] - 1 THEN ""
            ELSE SubSeq(text, cut[j] + 1, cut[j + 1] - 1)]

\* [s.strip() for s in content.split('.') if s.strip()]
SplitDot(text) ==
    LET pieces == SplitChar(text, {"."})
    IN  SelectSeq([i \in 1..Len(pieces) |-> StripStr(pieces[i])], LAMBDA x : x # "")

RECURSIVE JoinStr(_)
JoinStr(strs) ==
    IF strs = <<>> THEN ""
    ELSE IF Len(strs) = 1 THEN strs[1]
    ELSE strs[1] \o " " \o JoinStr(Tail(strs))

Prefix(seq, n) == SubSeq(seq, 1, IF Len(seq) < n THEN Len(seq) ELSE n)

\* self.font_config = SUBJECT_FONT_CONFIGS[self.subject]
FontConfig(subj) ==
    CASE subj = "science" -> [title |-> "Cambria", heading |-> "Calibri", content |-> "Arial"]
      [] OTHER -> [title |-> "Calibri", heading |-> "Calibri", content |-> "Arial"]

_get_subject_bullets(subj) ==
    CASE subj = "science" -> <<"Scientific principles involved", "Experimental methodology",
                               "Quantifiable results and metrics", "Practical applications">>
      [] OTHER -> <<>>

GENERIC_BULLETS ==
    <<"Relevant application to real-world scenarios",
      "Professional implementation considerations",
      "Performance and efficiency metrics",
      "Quality assurance and validation",
      "Risk management and mitigation strategies",
      "Stakeholder communication and reporting">>

\* while len(bullets) < needed_count and pool: bullets.append(pool.pop(0))
RECURSIVE FillFrom(_, _, _)
FillFrom(bullets, pool, needed_count) ==
    IF Len(bullets) < needed_count /\ pool # <<>>
    THEN FillFrom(Append(bullets, Head(pool)), Tail(pool), needed_count)
    ELSE bullets

\* lines 880-887: bullets from the first needed_count-1 sentences of the content
SentenceBullets(sentences, needed_count) ==
    LET \* ' '.join(sentence.split()[:15])
        First15Words(sentence) ==
            LET ws == SelectSeq(SplitChar(sentence, {" ", "\n", "\t"}), LAMBDA x : x # "")
            IN  JoinStr(SubSeq(ws, 1, IF Len(ws) < 15 THEN Len(ws) ELSE 15))
        firsts == Prefix(sentences, IF needed_count > 1 THEN needed_count - 1 ELSE 0)
        asBullet == [i \in 1..Len(firsts) |-> First15Words(firsts[i])]
        usable == [i \in 1..Len(firsts) |->
                      Len(firsts[i]) > 10 /\ Len(asBullet[i]) > 8]
        idx == SelectSeq([i \in 1..Len(firsts) |-> i], LAMBDA i : usable[i])
    IN  [k \in 1..Len(idx) |-> asBullet[idx[k]]]

_generate_professional_bullets(title, text, subj, needed_count) ==
    LET fromTitle == IF title # "" /\ Len(title) > 5
                     THEN <<"Key focus: " \o StripStr(title)>> ELSE <<>>
        fromContent == fromTitle \o SentenceBullets(SplitDot(text), needed_count)
        withSubject == FillFrom(fromContent, _get_subject_bullets(subj), needed_count)
        withGeneric == FillFrom(withSubject, GENERIC_BULLETS, needed_count)
    IN  Prefix(withGeneric, needed_count)

\* the kind _extract_slide_bullets looks at: 'type' first, then 'slide_type'
SlideKind(slide) == LowerCase(Get(slide, "type", Get(slide, "slide_type", "standard")))

\* the same without the filter
CleanBullets_KeepsEmpty(bullets) ==
    [i \in 1..Len(bullets) |-> StripStr(bullets[i])]

\* lines 819-823: keep the bullets that are not empty after trimming
CleanBullets(bullets) ==
    LET stripped == [i \in 1..Len(bullets) |-> StripStr(bullets[i])]
    IN  SelectSeq(stripped, LAMBDA b : b \notin {"", "None", "null"})

_extract_slide_bullets(slide, subj) ==
    LET fc == FontConfig(subj)
    IN  IF SlideKind(slide) \in {"title", "intro"}
        THEN Put(slide, "fonts", [title_font |-> fc.title, subtitle_font |-> fc.heading,
                                  content_font |-> fc.content])
        ELSE
          LET kept == CleanBullets(Get(slide, "bullets", <<>>))
              text == Get(slide, "content", Get(slide, "subtitle", ""))
              filled == IF Len(kept) < MIN_BULLETS
                        THEN kept \o _generate_professional_bullets(
                                 Get(slide, "title", "Topic"), text, subj,
                                 MIN_BULLETS - Len(kept))
                        ELSE kept
              bullets == IF Len(filled) > MAX_BULLETS THEN Prefix(filled, MAX_BULLETS)
                         ELSE filled
          IN  Put(Put(Put(slide, "bullets", bullets), "bullet_count", Len(bullets)),
                  "fonts", [title_font |-> fc.title, heading_font |-> fc.heading,
                            content_font |-> fc.content])

CHUNK_KEYS == {"chunk", "chunk_number", "chunk_idx", "chunk_id", "from_chunk"}

_clean_slide_metadata(slide) ==
    LET popped == [k \in DOMAIN slide \ CHUNK_KEYS |-> slide[k]]
        sub == IF Has(popped, "subtitle") /\ MentionsChunk(StripStr(popped["subtitle"]))
               THEN Put(popped, "subtitle", "") ELSE popped
    IN  IF Has(sub, "speaker_notes") /\ MentionsChunk(StripStr(sub["speaker_notes"]))
        THEN Put(sub, "speaker_notes", "") ELSE sub

\* _generate_chunked, lines 601-606: every slide of the chunk is normalised
NormalizeChunkSlides(slides, subj) ==
    [i \in 1..Len(slides) |-> _clean_slide_metadata(_extract_slide_bullets(slides[i], subj))]

\* ------------------------------------------------------------------------
\* GroqPresentationGenerator: the raw content and its chunks
\* The raw content is a sequence of paragraphs separated by blank lines.
\* A paragraph is one line of `words` words (50 to 980, so that it is
\* neither merged as a tiny chunk nor split by sentences) that ends with a
\* period and has `long` '.'-separated pieces of more than 20 characters.
\* ------------------------------------------------------------------------
MaxParas == 2
MaxReplySlides == 2
MaxApiCalls == 8

ParaCatalog ==
    <<[words |-> 60, long |-> 1], [words |-> 900, long |-> 9],
      [words |-> 700, long |-> 0], [words |-> 700, long |-> 0]>>
\* the contents of at most MaxParas paragraphs: runs of consecutive
\* catalog paragraphs, and the empty content
\* a content of more than 3500 words: four paragraphs of 900 words
BigContent == [i \in 1..4 |-> [words |-> 900, long |-> 9]]
RawContents ==
    {<<>>} \cup {SubSeq(ParaCatalog, w[1], w[2]) :
                    w \in {v \in (1..Len(ParaCatalog)) \X (1..Len(ParaCatalog)) :
                              v[2] >= v[1] /\ v[2] - v[1] + 1 <= MaxParas}}
           \* one paragraph around the 300-word threshold
           \cup {<<[words |-> w, long |-> 1]>> : w \in {250, 299, 300, 301, 350, 500}}
           \cup {BigContent}

RECURSIVE SumWords(_)
SumWords(paras) == IF paras = <<>> THEN 0 ELSE Head(paras).words + SumWords(Tail(paras))
RECURSIVE SumLong(_)
SumLong(paras) == IF paras = <<>> THEN 0 ELSE Head(paras).long + SumLong(Tail(paras))

\* _chunk_by_paragraphs on paragraphs that each fit the safe limit
RECURSIVE PackParagraphs(_, _, _)
PackParagraphs(paras, safe_limit, st) ==
    IF paras = <<>>
    THEN (IF st.current # <<>> THEN Append(st.chunks, st.current) ELSE st.chunks)
    ELSE
      LET paragraph == Head(paras)
          para_tokens == TokensOfWords(paragraph.words)
      IN  IF st.tokens + para_tokens <= safe_limit
          THEN PackParagraphs(Tail(paras), safe_limit,
                   [chunks |-> st.chunks, current |-> Append(st.current, paragraph),
                    tokens |-> st.tokens + para_tokens])
          ELSE PackParagraphs(Tail(paras), safe_limit,
                   [chunks |-> IF st.current # <<>> THEN Append(st.chunks, st.current)
                               ELSE st.chunks,
                    current |-> <<paragraph>>, tokens |-> para_tokens])

\* ContentChunker().chunk_content(self.raw_content): the quick return, or
\* the paragraph packing; the packed chunks stay under the budget and over
\* MIN_WORDS_PER_CHUNK words, so both validation passes return them as is
chunk_content(paras) ==
    IF TokensOfWords(SumWords(paras)) <= SAFE_TOKEN_LIMIT THEN <<paras>>
    ELSE PackParagraphs(paras, (SAFE_TOKEN_LIMIT * 85) \div 100,
             [chunks |-> <<>>, current |-> <<>>, tokens |-> 0])

\* ------------------------------------------------------------------------
\* _generate_fallback_slides(chunk_text, chunk_idx)
\* ------------------------------------------------------------------------
BULLETS_PER_SLIDE == 5

\* the sentences of lines 1003-1007: the pieces longer than 20 characters,
\* or, when there are none, the lines longer than 20 characters
FallbackSentences(chunk) ==
    IF SumLong(chunk) > 0
    THEN [i \in 1..SumLong(chunk) |-> "Extracted sentence " \o ToString(i)]
    ELSE [i \in 1..Len(chunk) |-> "Extracted line " \o ToString(i)]

\* the loop of lines 1018-1034, i counted from 0
RECURSIVE FallbackLoop(_, _)
FallbackLoop(sentences, i) ==
    IF i >= Len(sentences) THEN <<>>
    ELSE
      LET upto(n) == IF i + n < Len(sentences) THEN i + n ELSE Len(sentences)
          five == SubSeq(sentences, i + 1, upto(BULLETS_PER_SLIDE))
          slide_bullets == IF Len(five) < 4 /\ i + BULLETS_PER_SLIDE < Len(sentences)
                           THEN SubSeq(sentences, i + 1, upto(6)) ELSE five
          slide == [slide_type |-> "content",
                    title |-> "Key Points - Section " \o ToString((i \div BULLETS_PER_SLIDE) + 1),
                    subtitle |-> "",
                    bullets |-> slide_bullets,
                    speaker_notes |-> "",
                    visuals |-> [icons |-> <<>>, symbols |-> <<"arrow">>]]
      IN  (IF Len(slide_bullets) >= 4 THEN <<slide>> ELSE <<>>)
          \o FallbackLoop(sentences, i + BULLETS_PER_SLIDE)

_generate_fallback_slides(chunk) ==
    LET sentences == FallbackSentences(chunk)
    IN  IF sentences = <<>> THEN <<>> ELSE FallbackLoop(sentences, 0)

\* ------------------------------------------------------------------------
\* generate_fallback_slides(text, topic, num_slides)
\* ------------------------------------------------------------------------
\* s[:n], with '...' after it where asked for and s is longer
Clip(str, n, dots) == IF Len(str) > n THEN SubSeq(str, 1, n) \o dots ELSE str

RECURSIVE FallbackDocLoop(_, _, _, _, _)
FallbackDocLoop(sentences, per_slide, i, slide_num, n) ==
    IF i >= Len(sentences) \/ slide_num > n THEN <<>>
    ELSE
      LET last == IF i + per_slide < Len(sentences) THEN i + per_slide ELSE Len(sentences)
          group == SubSeq(sentences, i + 1, last)
          slide_bullets == [k \in 1..Len(group) |-> Clip(group[k], 100, "...")]
      IN  <<[slide_number |-> slide_num,
             title |-> "Key Point " \o ToString(slide_num - 1),
             subtitle |-> "",
             content |-> Clip(JoinStr(group), 500, ""),
             bullets |-> Prefix(slide_bullets, 4),
             visual_description |-> "Content slide " \o ToString(slide_num - 1)]>>
          \o FallbackDocLoop(sentences, per_slide, i + per_slide, slide_num + 1, n)

\* the same without the title slide
generate_fallback_slides_NoTitle(text, deck_topic, n) ==
    LET byLine == SplitChar(text, {"\n"})
        sentences == IF SplitDot(text) # <<>> THEN SplitDot(text)
                     ELSE SelectSeq([i \in 1..Len(byLine) |-> StripStr(byLine[i])],
                                    LAMBDA x : x # "")
        quot == IF n > 1 THEN Len(sentences) \div (n - 1) ELSE 0
        per_slide == IF quot > 1 THEN quot ELSE 1
        slides == IF n > 1 THEN FallbackDocLoop(sentences, per_slide, 0, 2, n) ELSE <<>>
    IN  [presentation |-> [title |-> deck_topic, num_slides |-> Len(slides)],
         slides |-> slides]

generate_fallback_slides(text, deck_topic, n) ==
    LET byLine == SplitChar(text, {"\n"})
        sentences == IF SplitDot(text) # <<>> THEN SplitDot(text)
                     ELSE SelectSeq([i \in 1..Len(byLine) |-> StripStr(byLine[i])],
                                    LAMBDA x : x # "")
        first == [slide_number |-> 1,
                  title |-> deck_topic,
                  subtitle |-> "Presentation Generated",
                  content |-> "Content prepared from text analysis",
                  bullets |-> <<"Key information compiled">>,
                  visual_description |-> "Title slide with topic"]
        quot == IF n > 1 THEN Len(sentences) \div (n - 1) ELSE 0
        per_slide == IF quot > 1 THEN quot ELSE 1
        slides == <<first>> \o (IF n > 1 THEN FallbackDocLoop(sentences, per_slide, 0, 2, n)
                                ELSE <<>>)
    IN  [presentation |-> [title |-> deck_topic, num_slides |-> Len(slides)],
         slides |-> slides]

\* ------------------------------------------------------------------------
\* GroqPresentationGenerator as a state machine
\* ------------------------------------------------------------------------
MAX_RETRIES == 2
MIN_SLIDES == 3
MAX_SLIDES == 100
DEFAULT_FALLBACK_SLIDES == 5
TONES == {"professional", "casual", "academic", "persuasive"}


Truthy(n) == n # <<>> /\ n[1] # 0

\* __init__, lines 264-278: chunking switched on by the length of the content
AutoChunking(raw, n, requested) ==
    IF should_auto_chunk(SumWords(raw)) /\ ~Truthy(n) /\ ~requested THEN TRUE
    ELSE IF SumWords(raw) > 3500 /\ ~requested THEN TRUE
    ELSE requested

GeneratorInit ==
    /\ ChunkerIdle
    /\ CompilerIdle
    /\ RepairIdle
    /\ ScriptIdle
    /\ topic \in {"", "AI"}
    /\ raw_content \in RawContents
    /\ target_audience \in {"", "Students"}
    /\ tone \in {"academic", "funny"}
    /\ subject = "general"
    \* num_slides: <<>> is None, <<n>> is the integer n
    /\ num_slides \in {<<>>, <<2>>, <<5>>, <<101>>}
    \* the content of more than 3500 words comes with a slide count, as in
    \* tests/test_auto_chunking.py
    /\ raw_content = BigContent => num_slides # <<>>
    /\ chunking_arg \in BOOLEAN
    /\ enable_chunking = AutoChunking(raw_content, num_slides, chunking_arg)
    /\ pc = "constructed" /\ stack = <<>>
    /\ gen_chunks = <<>> /\ chunk_idx = 0 /\ retry_count = 0
    /\ chunk_slides = <<>> /\ all_chunk_slides = <<>> /\ fallback_chunks = {}
    /\ result = <<>> /\ error = ""
    /\ api_calls = 0 /\ chunker_calls = 0
    /\ reply = [kind |-> "none"]

\* the validation without the raw_content test
InputInvalid_IgnoresContent ==
    \/ num_slides # <<>> /\ (num_slides[1] < MIN_SLIDES \/ num_slides[1] > MAX_SLIDES)
    \/ topic = ""
    \/ target_audience = ""
    \/ tone \notin TONES

\* generate(), lines 316-335
InputInvalid ==
    \/ num_slides # <<>> /\ (num_slides[1] < MIN_SLIDES \/ num_slides[1] > MAX_SLIDES)
    \/ topic = ""
    \/ raw_content = <<>>
    \/ target_audience = ""
    \/ tone \notin TONES

\* what generate() returns when the method it called returned value `ret`:
\* a list of slides is wrapped into a document (lines 346-360)
WrapResult(ret) ==
    IF ret.is_list
    THEN [presentation_title |-> topic, topic |-> topic,
          target_audience |-> target_audience, tone |-> tone, subject |-> subject,
          total_slides |-> Len(ret.value), slides |-> ret.value,
          metadata |-> [generated_with_chunking |-> enable_chunking',
                        number_of_chunks |-> 1]]
    ELSE ret.value

Return(ret) ==
    /\ pc' = "returned"
    /\ result' = WrapResult(ret)
    /\ error' = ""
    /\ stack' = <<>>

\* an exception answered by one more single request
Raise_CallsAgain(e) ==
    /\ pc' = "single"
    /\ error' = e
    /\ result' = <<>>
    /\ stack' = Append(stack, "_generate_single")

Raise(e) ==
    /\ pc' = "raised"
    /\ error' = e
    /\ result' = <<>>
    /\ stack' = <<>>

\* generate(): validation, then the choice of the method (lines 312-343)
Generate ==
    /\ pc = "constructed"
    /\ IF InputInvalid
       THEN Raise("ValueError: Input validation failed")
       ELSE /\ pc' = IF enable_chunking /\ ~Truthy(num_slides) THEN "chunked" ELSE "single"
            /\ stack' = <<"generate", IF enable_chunking /\ ~Truthy(num_slides)
                                      THEN "_generate_chunked" ELSE "_generate_single">>
            /\ UNCHANGED <<result, error>>
    /\ UNCHANGED <<inputVars, enable_chunking, loopVars, api_calls, chunker_calls, reply,
                   chunkerVars, compilerVars, repairVars, scriptVars>>

\* _generate_chunked, lines 507-512: chunk the content; one chunk goes to
\* _generate_single
EnterChunked ==
    /\ pc = "chunked"
    /\ chunker_calls' = chunker_calls + 1
    /\ LET cs == chunk_content(raw_content)
       IN  /\ gen_chunks' = cs
           /\ IF Len(cs) = 1
              THEN /\ pc' = "single"
                   /\ stack' = Append(stack, "_generate_single")
                   /\ UNCHANGED <<chunk_idx, retry_count, chunk_slides, all_chunk_slides>>
              ELSE /\ pc' = "chunk_loop"
                   /\ stack' = stack
                   /\ chunk_idx' = 1
                   /\ retry_count' = 0
                   /\ chunk_slides' = <<>>
                   /\ all_chunk_slides' = <<>>
    /\ UNCHANGED <<inputVars, enable_chunking, fallback_chunks, result, error, api_calls,
                   reply, chunkerVars, compilerVars, repairVars, scriptVars>>

\* ---- _generate_single ---------------------------------------------------
\* the slide lists of a reply: no slide, or MaxReplySlides consecutive
\* catalog slides
ReplyLists ==
    {<<>>} \cup {l \in SlideRuns(MaxReplySlides) : Len(l) = MaxReplySlides}

\* what the call of _generate_single gives: an exception, a reply without
\* JSON text or with one that does not parse, or a reply whose repaired or
\* original text parses to an array or an object
SingleOutcomes ==
    LET ReplyObjects ==
            {[presentation_title |-> "AI deck", slides |-> l] : l \in ReplyLists}
            \cup {[title |-> "X", subtitle |-> "An object without slides"]}
        ReplyTexts ==
            {"", " ", "Slides are not available", "...",
             "First remark. Second remark. Third remark. Fourth remark. Fifth remark. Sixth remark."}
    IN
    {[kind |-> k] : k \in {"rate_limit", "api_error"}}
    \cup {[kind |-> k, text |-> t] : k \in {"no_json", "unparseable"}, t \in ReplyTexts}
    \cup {[kind |-> k, array |-> l] : k \in {"repaired", "original"}, l \in ReplyLists}
    \cup {[kind |-> k, object |-> o] : k \in {"repaired", "original"}, o \in ReplyObjects}

\* lines 436-438: bullets enforced on the slides of a parsed object
EnforceObject(o) ==
    IF Has(o, "slides")
    THEN Put(o, "slides", [i \in 1..Len(o["slides"]) |->
                              _extract_slide_bullets(o["slides"][i], subject)])
    ELSE o

\* lines 402-429: the JSON text is the reply from its first '[' to its last
\* ']', and only without any '[' from its first '{' to its last '}'; so of
\* an object whose one array is its slide list the slide list is what is
\* parsed.  The result is tagged as a list or an object.
ExtractedJSON(out) ==
    IF Has(out, "array") THEN [is_list |-> TRUE, value |-> out.array]
    ELSE IF Has(out.object, "slides")
         THEN [is_list |-> TRUE, value |-> out.object["slides"]]
         ELSE [is_list |-> FALSE, value |-> out.object]

\* the value _generate_single returns for a reply (lines 402-472): the
\* fallback document when there is no JSON text or when neither the
\* repaired nor the original text parses, the parse of the repaired text,
\* or else the parse of the original text
SingleValue(out) ==
    LET n == IF Truthy(num_slides) THEN num_slides[1] ELSE DEFAULT_FALLBACK_SLIDES
    IN  CASE out.kind \in {"no_json", "unparseable"} ->
                [is_list |-> FALSE, value |-> generate_fallback_slides(out.text, topic, n)]
          [] out.kind = "repaired" ->
                IF ExtractedJSON(out).is_list THEN ExtractedJSON(out)
                ELSE [is_list |-> FALSE, value |-> EnforceObject(ExtractedJSON(out).value)]
          [] out.kind = "original" -> ExtractedJSON(out)

\* _generate_single: one generation call and what follows it (lines 383-495)
SingleCall ==
    /\ pc = "single"
    /\ api_calls < MaxApiCalls
    /\ api_calls' = api_calls + 1
    /\ \E out \in SingleOutcomes :
         /\ reply' = out
         /\ CASE out.kind = "rate_limit" ->
                   IF ~enable_chunking
                   THEN /\ enable_chunking' = TRUE
                        /\ pc' = "chunked"
                        /\ stack' = Append(stack, "_generate_chunked")
                        /\ UNCHANGED <<result, error>>
                   ELSE /\ Raise("Exception: Even with chunking, token limit exceeded")
                        /\ UNCHANGED enable_chunking
              [] out.kind = "api_error" ->
                   /\ Raise("Exception: Groq API call failed")
                   /\ UNCHANGED enable_chunking
              [] OTHER ->
                   /\ UNCHANGED enable_chunking
                   /\ Return(SingleValue(out))
    /\ UNCHANGED <<inputVars, loopVars, chunker_calls, chunkerVars, compilerVars, repairVars, scriptVars>>

\* ---- _generate_chunked: the loop over the chunks -------------------------
ChunkOutcomes ==
    {[kind |-> k] : k \in {"api_error", "no_json", "unparseable"}}
    \cup {[kind |-> "parsed", array |-> l] : l \in ReplyLists}

\* one pass of the retry loop (lines 538-598) for one reply:
\* the new chunk_slides and retry_count, whether the loop is left, and
\* whether the slides are the fallback ones
AttemptResult(out, chunk, retries) ==
    LET fallback == _generate_fallback_slides(chunk)
    IN  CASE out.kind = "api_error" ->
                IF retries < MAX_RETRIES
                THEN [slides |-> <<>>, retries |-> retries + 1, leaves |-> FALSE, fell |-> FALSE]
                ELSE [slides |-> fallback, retries |-> retries, leaves |-> TRUE, fell |-> TRUE]
          [] out.kind \in {"no_json", "unparseable"} ->
                IF retries < MAX_RETRIES
                THEN [slides |-> <<>>, retries |-> retries + 1, leaves |-> FALSE, fell |-> FALSE]
                ELSE [slides |-> fallback, retries |-> retries,
                      leaves |-> fallback # <<>>, fell |-> TRUE]
          [] out.kind = "parsed" ->
                [slides |-> out.array, retries |-> retries,
                 leaves |-> out.array # <<>>, fell |-> FALSE]

\* lines 616-629: compile and validate
CompiledDocument(lists) ==
    validate_compiled_json(
        compile_chunk_slides([topic |-> topic, target_audience |-> target_audience,
                              tone |-> tone], lists, Len(gen_chunks), <<>>))

\* one generation call for the current chunk and what follows it: a retry,
\* or the end of the chunk (normalisation, storing) and, after the last
\* chunk, compilation and return
ChunkCall ==
    /\ pc = "chunk_loop"
    /\ api_calls < MaxApiCalls
    /\ api_calls' = api_calls + 1
    /\ \E out \in ChunkOutcomes :
         LET r == AttemptResult(out, gen_chunks[chunk_idx], retry_count)
             stored == Append(all_chunk_slides, NormalizeChunkSlides(r.slides, subject))
         IN  /\ reply' = out
             /\ IF ~r.leaves
                THEN /\ retry_count' = r.retries
                     /\ chunk_slides' = r.slides
                     /\ UNCHANGED <<chunk_idx, all_chunk_slides, fallback_chunks, pc, stack,
                                    result, error>>
                ELSE /\ all_chunk_slides' = stored
                     /\ fallback_chunks' = IF r.fell THEN fallback_chunks \cup {chunk_idx}
                                           ELSE fallback_chunks
                     /\ IF chunk_idx < Len(gen_chunks)
                        THEN /\ chunk_idx' = chunk_idx + 1
                             /\ retry_count' = 0
                             /\ chunk_slides' = <<>>
                             /\ UNCHANGED <<pc, stack, result, error>>
                        ELSE /\ chunk_slides' = r.slides
                             /\ retry_count' = r.retries
                             /\ UNCHANGED chunk_idx
                             /\ Return([is_list |-> FALSE, value |-> CompiledDocument(stored)])
    /\ UNCHANGED <<inputVars, enable_chunking, gen_chunks, chunker_calls,
                   chunkerVars, compilerVars, repairVars, scriptVars>>

GeneratorNext == Generate \/ EnterChunked \/ SingleCall \/ ChunkCall

SpecGenerator == GeneratorInit /\ [][GeneratorNext]_vars

\* ------------------------------------------------------------------------
\* Properties of generate()
\* ------------------------------------------------------------------------

\* C3 (Numbering): every document generate() returns has slides whose
\* slide_number values are 1..N in list order and a total_slides equal to
\* N = len(slides), on the chunked path and on the single-request path.
C3_Numbering ==
    pc = "returned" =>
        /\ Has(result, "slides")
        /\ Has(result, "total_slides")
        /\ result["total_slides"] = Len(result["slides"])
        /\ \A i \in 1..Len(result["slides"]) :
              /\ Has(result["slides"][i], "slide_number")
              /\ result["slides"][i]["slide_number"] = i

\* C4 (No data loss on failure): in a document compiled from several chunks
\* every chunk contributed at least one slide, so the document has at least
\* (number of chunks + 2) slides.
C4_EveryChunkContributes ==
    (pc = "returned" /\ Len(gen_chunks) > 1) =>
        /\ \A i \in 1..Len(gen_chunks) : all_chunk_slides[i] # <<>>
        /\ Len(result["slides"]) >= Len(gen_chunks) + 2

\* C5 (Bullet bound, chunked path): in a document compiled from several
\* chunks every slide whose final slide_type is content or conclusion has
\* between 4 and 8 bullets, none of them empty after trimming.
C5_BulletBound ==
    (pc = "returned" /\ Len(gen_chunks) > 1) =>
        \A i \in 1..Len(result["slides"]) :
            LET slide == result["slides"][i]
            IN  slide["slide_type"] \in {"content", "conclusion"} =>
                    /\ Len(slide["bullets"]) >= 4
                    /\ Len(slide["bullets"]) <= 8
                    /\ \A k \in 1..Len(slide["bullets"]) :
                          StripStr(slide["bullets"][k]) # ""

\* C7 (Input validation precedes generation): with an empty raw_content,
\* topic or target_audience, a tone outside the four accepted ones, or a
\* num_slides outside 3..100, generate() raises the input-validation error
\* before any generation or chunking call, returns no document and is not
\* retried.
C7_ValidationFirst ==
    (\/ raw_content = <<>>
     \/ topic = ""
     \/ target_audience = ""
     \/ tone \notin {"professional", "casual", "academic", "persuasive"}
     \/ num_slides # <<>> /\ (num_slides[1] < 3 \/ num_slides[1] > 100))
    => /\ pc \in {"constructed", "raised"}
       /\ pc = "raised" => error = "ValueError: Input validation failed"
       /\ api_calls = 0
       /\ chunker_calls = 0
       /\ result = <<>>
       /\ stack = <<>>

\* generate() has raised on an empty raw_content with every other input valid
C7_Witness ==
    /\ pc = "raised"
    /\ raw_content = <<>>
    /\ topic # "" /\ target_audience # "" /\ tone = "academic" /\ num_slides = <<5>>
    /\ error = "ValueError: Input validation failed"
    /\ api_calls = 0

\* C8 (Explicit slide count bypasses segmentation): when num_slides is
\* given, no execution of generate() enters _generate_chunked or calls
\* ContentChunker.chunk_content, whatever the single request's outcome.
C8_NoChunkingWithNumSlides ==
    num_slides # <<>> =>
        /\ chunker_calls = 0
        /\ pc \notin {"chunked", "chunk_loop"}
        /\ \A i \in 1..Len(stack) : stack[i] # "_generate_chunked"

\* C9 (Partial-success provenance): a document compiled from several chunks
\* of which at least one fell back records a partial flag and the failed
\* chunk indices in its metadata, and a document without a failed chunk
\* records no partial status.
C9_PartialProvenance ==
    (pc = "returned" /\ Len(gen_chunks) > 1) =>
        LET md == result["metadata"]
        IN  IF fallback_chunks # {}
            THEN /\ Has(md, "partial") /\ md["partial"] = TRUE
                 /\ Has(md, "failed_chunks")
                 /\ {md["failed_chunks"][k] : k \in 1..Len(md["failed_chunks"])}
                        = fallback_chunks
            ELSE ~Has(md, "partial") \/ md["partial"] = FALSE

\* C12 (Bullet bound, single-request path): every slide other than a title
\* or intro slide of a document that _generate_single parsed from the reply
\* (an array of slides or an object with slides, repaired or original text)
\* has between 4 and 8 bullets.
C12_SingleBulletBound ==
    (pc = "returned" /\ Len(gen_chunks) <= 1
        /\ Has(result, "slides") /\ ~Has(result, "presentation")) =>
        \A i \in 1..Len(result["slides"]) :
            LET slide == result["slides"][i]
            IN  SlideKind(slide) \notin {"title", "intro"} =>
                    /\ Len(Get(slide, "bullets", <<>>)) >= 4
                    /\ Len(Get(slide, "bullets", <<>>)) <= 8

\* C13 (Auto-chunk threshold): should_auto_chunk is true exactly for
\* contents of at least 300 words, and a generator constructed with
\* enable_chunking=False and no num_slides has enable_chunking = True
\* exactly when its content has at least 300 words.
C13_AutoChunkThreshold ==
    /\ should_auto_chunk(SumWords(raw_content)) = (SumWords(raw_content) >= 300)
    /\ (pc = "constructed" /\ ~chunking_arg /\ num_slides = <<>>) =>
          (enable_chunking = (SumWords(raw_content) >= 300))

\* C13 witness: constructed on exactly 300 words, chunking switched on
C13_Witness ==
    /\ pc = "constructed" /\ ~chunking_arg /\ num_slides = <<>>
    /\ SumWords(raw_content) = 300
    /\ enable_chunking

\* C14 (Large-content auto-chunking): with more than 3500 words and
\* chunking not requested, chunking is enabled at construction and a
\* generate() that passed validation goes through _generate_chunked, also
\* when num_slides is given.
C14_LargeContentChunked ==
    (SumWords(raw_content) > 3500 /\ ~chunking_arg /\ pc # "idle") =>
        /\ enable_chunking
        /\ pc \in {"single", "returned"} => chunker_calls >= 1

C20_FailFast ==
    reply.kind = "api_error" => retry_count = 0

\* ------------------------------------------------------------------------
\* repair_json_string (presentation_generator.py) and json.loads
\*
\* A text is a sequence of lexical units: each punctuation character of
\* JSON, a space, a newline and a backslash are units of their own, and a
\* run of letters is one unit.  The regular expressions of the code speak
\* only about punctuation and whitespace, so they act on units exactly as
\* they act on characters.
\* ------------------------------------------------------------------------
MaxStrLen == 2

DQ == "\""
BS == "\\"

IsWs(t) == t \in {" ", "\n"}

\* the first index from i on that holds no whitespace (Len(T) + 1 if none)
SkipWs(T, i) ==
    CHOOSE j \in i..(Len(T) + 1) :
        /\ \A k \in i..(j - 1) : IsWs(T[k])
        /\ j = Len(T) + 1 \/ ~IsWs(T[j])

\* the first index from i on that holds tok (0 if none)
Find(T, i, tok) ==
    IF \E j \in i..Len(T) : T[j] = tok
    THEN CHOOSE j \in i..Len(T) : T[j] = tok /\ \A k \in i..(j - 1) : T[k] # tok
    ELSE 0

At(T, i) == IF i >= 1 /\ i <= Len(T) THEN T[i] ELSE ""

NoMatch == [end |-> 0, out |-> <<>>]

\* one attempt of a pattern of the code at index i: the index after the
\* match and the replacement text, or NoMatch
MatchAt(step, T, i) ==
    CASE step = "escaped_quote" ->
            IF At(T, i) = BS /\ At(T, i + 1) = BS /\ At(T, i + 2) = DQ
            THEN [end |-> i + 3, out |-> <<DQ>>]
            ELSE NoMatch
      [] step = "key_quotes" ->
            IF T[i] # "'" \/ Find(T, i + 1, "'") = 0 THEN NoMatch
            ELSE LET j == Find(T, i + 1, "'")
                     c == SkipWs(T, j + 1)
                 IN IF At(T, c) = ":"
                    THEN [end |-> c + 1,
                          out |-> <<DQ>> \o SubSeq(T, i + 1, j - 1) \o <<DQ>>
                                  \o SubSeq(T, j + 1, c - 1) \o <<":">>]
                    ELSE NoMatch
      [] step = "value_quotes" ->
            IF T[i] # ":" THEN NoMatch
            ELSE LET a == SkipWs(T, i + 1)
                     j == Find(T, a + 1, "'")
                     c == SkipWs(T, j + 1)
                 IN IF At(T, a) = "'" /\ j # 0 /\ At(T, c) \in {",", "}"}
                    THEN [end |-> c + 1,
                          out |-> <<":", " ", DQ>> \o SubSeq(T, a + 1, j - 1) \o <<DQ>>
                                  \o SubSeq(T, j + 1, c)]
                    ELSE NoMatch
      [] step = "trailing_comma" ->
            IF T[i] # "," THEN NoMatch
            ELSE LET c == SkipWs(T, i + 1)
                 IN IF At(T, c) \in {"}", "]"}
                    THEN [end |-> c + 1, out |-> SubSeq(T, i + 1, c)]
                    ELSE NoMatch
      [] step \in {"}{", "}[", "]{", "]["} ->
            IF T[i] # SubSeq(step, 1, 1) THEN NoMatch
            ELSE LET c == SkipWs(T, i + 1)
                 IN IF At(T, c) = SubSeq(step, 2, 2)
                    THEN [end |-> c + 1, out |-> <<T[i], ",", T[c]>>]
                    ELSE NoMatch
      [] step \in {"\"{", "\"["} ->
            IF T[i] # DQ THEN NoMatch
            ELSE LET c == SkipWs(T, i + 1)
                 IN IF At(T, c) = SubSeq(step, 2, 2)
                    THEN [end |-> c + 1, out |-> SubSeq(T, i, c - 1) \o <<",", T[c]>>]
                    ELSE NoMatch

\* re.sub: leftmost matches, non-overlapping, scanning from left to right
RECURSIVE ReSubFrom(_, _, _)
ReSubFrom(step, T, i) ==
    IF i > Len(T) THEN <<>>
    ELSE LET m == MatchAt(step, T, i)
         IN IF m.end = 0
            THEN <<T[i]>> \o ReSubFrom(step, T, i + 1)
            ELSE m.out \o ReSubFrom(step, T, m.end)

\* the character loop that escapes literal newlines inside strings
RECURSIVE EscapeNewlines(_, _, _)
EscapeNewlines(T, i, in_string) ==
    IF i > Len(T) THEN <<>>
    ELSE IF T[i] = BS /\ i + 1 <= Len(T)
         THEN <<T[i], T[i + 1]>> \o EscapeNewlines(T, i + 2, in_string)
    ELSE IF T[i] = DQ /\ (i = 1 \/ T[i - 1] # BS)
         THEN <<T[i]>> \o EscapeNewlines(T, i + 1, ~in_string)
    ELSE IF T[i] = "\n" /\ in_string
         THEN <<BS, "n">> \o EscapeNewlines(T, i + 1, in_string)
    ELSE <<T[i]>> \o EscapeNewlines(T, i + 1, in_string)

CompleteStructures(T) ==
    LET Count(tok) == Cardinality({i \in 1..Len(T) : T[i] = tok})
        Times(tok, n) == [i \in 1..n |-> tok]
        open_braces == Count("{") - Count("}")
        open_brackets == Count("[") - Count("]")
    IN T \o (IF open_braces > 0 THEN Times("}", open_braces) ELSE <<>>)
         \o (IF open_brackets > 0 THEN Times("]", open_brackets) ELSE <<>>)

\* The texts drawn below never start with a code fence or a byte order
\* mark, so those two steps of the code leave them alone.
repair_json_string(json_str) ==
    LET T == json_str
        ReSub(step, text) == ReSubFrom(step, text, 1)
        \* json_str.strip()
        s0 == IF \A i \in 1..Len(T) : IsWs(T[i]) THEN <<>>
              ELSE LET a == CHOOSE i \in 1..Len(T) :
                                ~IsWs(T[i]) /\ \A k \in 1..(i - 1) : IsWs(T[k])
                       b == CHOOSE i \in 1..Len(T) :
                                ~IsWs(T[i]) /\ \A k \in (i + 1)..Len(T) : IsWs(T[k])
                   IN  SubSeq(T, a, b)
        s1 == ReSub("escaped_quote", s0)
        s2 == ReSub("key_quotes", s1)
        s3 == ReSub("value_quotes", s2)
        s4 == ReSub("trailing_comma", s3)
        s5 == ReSub("][", ReSub("]{", ReSub("}[", ReSub("}{", s4))))
        s6 == ReSub("\"[", ReSub("\"{", s5))
    IN CompleteStructures(EscapeNewlines(s6, 1, FALSE))

\* json.loads on a text of units.  The value is returned in a canonical
\* flat form: a string is <<"<str>", its decoded units, "</str>">>, an
\* array and an object wrap the forms of their parts the same way.
Fail == [ok |-> FALSE, pos |-> 0, val |-> <<>>]

\* the decoded units of an escape whose second part is the unit e
Unescape(e) ==
    LET ESCAPES == [n |-> "<LF>", t |-> "<TAB>", b |-> "<BS>", f |-> "<FF>", r |-> "<CR>"]
    IN
    IF e \in {DQ, BS, "/"} THEN [ok |-> TRUE, val |-> <<e>>]
    ELSE IF e # "" /\ SubSeq(e, 1, 1) \in DOMAIN ESCAPES
         THEN [ok |-> TRUE,
               val |-> <<ESCAPES[SubSeq(e, 1, 1)]>>
                       \o (IF Len(e) > 1 THEN <<SubSeq(e, 2, Len(e))>> ELSE <<>>)]
    ELSE [ok |-> FALSE, val |-> <<>>]

\* the characters of a string from index j up to its closing quote
RECURSIVE ParseChars(_, _)
ParseChars(T, j) ==
    IF j > Len(T) \/ At(T, j) = "\n" THEN Fail
    ELSE IF T[j] = DQ THEN [ok |-> TRUE, pos |-> j + 1, val |-> <<>>]
    ELSE IF T[j] = BS
         THEN LET u == Unescape(At(T, j + 1))
                  rest == ParseChars(T, j + 2)
              IN IF u.ok /\ rest.ok
                 THEN [ok |-> TRUE, pos |-> rest.pos, val |-> u.val \o rest.val]
                 ELSE Fail
    ELSE LET rest == ParseChars(T, j + 1)
         IN IF rest.ok
            THEN [ok |-> TRUE, pos |-> rest.pos, val |-> <<T[j]>> \o rest.val]
            ELSE Fail

ParseString(T, i) ==
    LET s == ParseChars(T, i + 1)
    IN IF s.ok
       THEN [ok |-> TRUE, pos |-> s.pos, val |-> <<"<str>">> \o s.val \o <<"</str>">>]
       ELSE Fail

RECURSIVE ParseValue(_, _)
RECURSIVE ParseElements(_, _)
RECURSIVE ParseMembers(_, _)

ParseValue(T, i) ==
    LET a == SkipWs(T, i)
    IN CASE At(T, a) = DQ -> ParseString(T, a)
         [] At(T, a) = "[" ->
                LET j == SkipWs(T, a + 1)
                    els == ParseElements(T, j)
                IN IF At(T, j) = "]"
                   THEN [ok |-> TRUE, pos |-> j + 1, val |-> <<"<arr>", "</arr>">>]
                   ELSE IF els.ok
                        THEN [ok |-> TRUE, pos |-> els.pos,
                              val |-> <<"<arr>">> \o els.val \o <<"</arr>">>]
                        ELSE Fail
         [] At(T, a) = "{" ->
                LET j == SkipWs(T, a + 1)
                    mem == ParseMembers(T, j)
                IN IF At(T, j) = "}"
                   THEN [ok |-> TRUE, pos |-> j + 1, val |-> <<"<obj>", "</obj>">>]
                   ELSE IF mem.ok
                        THEN [ok |-> TRUE, pos |-> mem.pos,
                              val |-> <<"<obj>">> \o mem.val \o <<"</obj>">>]
                        ELSE Fail
         [] OTHER -> Fail

ParseElements(T, j) ==
    LET v == ParseValue(T, j)
        k == SkipWs(T, v.pos)
        rest == ParseElements(T, k + 1)
    IN IF ~v.ok THEN Fail
       ELSE IF At(T, k) = "]" THEN [ok |-> TRUE, pos |-> k + 1, val |-> v.val]
       ELSE IF At(T, k) = "," /\ rest.ok
            THEN [ok |-> TRUE, pos |-> rest.pos, val |-> v.val \o rest.val]
       ELSE Fail

ParseMembers(T, j) ==
    LET key == ParseString(T, j)
        k == SkipWs(T, key.pos)
        v == ParseValue(T, k + 1)
        m == SkipWs(T, v.pos)
        rest == ParseMembers(T, SkipWs(T, m + 1))
    IN IF At(T, j) # DQ \/ ~key.ok \/ At(T, k) # ":" \/ ~v.ok THEN Fail
       ELSE IF At(T, m) = "}"
            THEN [ok |-> TRUE, pos |-> m + 1, val |-> key.val \o v.val]
       ELSE IF At(T, m) = "," /\ rest.ok
            THEN [ok |-> TRUE, pos |-> rest.pos, val |-> key.val \o v.val \o rest.val]
       ELSE Fail

json_loads(T) ==
    LET v == ParseValue(T, 1)
    IN IF v.ok /\ SkipWs(T, v.pos) = Len(T) + 1
       THEN [ok |-> TRUE, val |-> v.val]
       ELSE [ok |-> FALSE, val |-> <<>>]

\* ------------------------------------------------------------------------
\* Specification of the repair and the parse attempts of _generate_single
\* ------------------------------------------------------------------------
\* texts that are valid JSON: an object and an array holding one string
\* of at most MaxStrLen of the units a string may hold between its quotes
ValidTexts ==
    LET ContentUnits ==
            {<<"x">>, <<",">>, <<"]">>, <<"}">>, <<"{">>, <<"[">>, <<"'">>, <<":">>, <<" ">>,
             <<BS, BS>>, <<BS, DQ>>}
        StringContents == {Flatten(s) : s \in SeqsUpTo(ContentUnits, MaxStrLen)}
    IN  {<<"{", DQ, "t", DQ, ":", DQ>> \o c \o <<DQ, "}">> : c \in StringContents}
        \cup {<<"[", DQ>> \o c \o <<DQ, "]">> : c \in StringContents}

\* {title: 'X', bullets: ['a','b',]}
ScenarioText ==
    <<"{", "title", ":", " ", "'", "X", "'", ",", " ", "bullets", ":", " ",
      "[", "'", "a", "'", ",", "'", "b", "'", ",", "]", "}">>

\* {"title":"X","bullets":["a","b"]}
ScenarioJSON ==
    <<"{", DQ, "title", DQ, ":", DQ, "X", DQ, ",", DQ, "bullets", DQ, ":",
      "[", DQ, "a", DQ, ",", DQ, "b", DQ, "]", "}">>

\* replies with the defects the repair is written for
BrokenTexts ==
    {ScenarioText,
     <<"{", "'", "title", "'", ":", " ", "'", "X", "'", ",", " ", DQ, "bullets", DQ, ":", " ",
       "[", DQ, "a", DQ, ",", DQ, "b", DQ, ",", "]", ",", "}">>,
     <<"[", "{", DQ, "t", DQ, ":", DQ, "x", DQ, "}", "\n", "{", DQ, "t", DQ, ":", DQ, "x", DQ, "}", "]">>,
     <<"[", "{", DQ, "t", DQ, ":", "[", DQ, "x", DQ, ",", DQ, "x", DQ>>,
     <<" ", "{", DQ, "t", DQ, ":", DQ, "a", "\n", "b", DQ, "}", "\n">>,
     <<"{", DQ, "t", DQ, ":", DQ, "x", BS, BS, BS, DQ, "}">>,
     <<"[", "title", "]">>}

RepairInit ==
    /\ ChunkerIdle
    /\ CompilerIdle
    /\ GeneratorIdle
    /\ ScriptIdle
    /\ r_text \in ValidTexts \cup BrokenTexts
    /\ r_repaired = <<>>
    /\ r_parsed = <<>>
    /\ rpc = "extracted"

\* json_str_repaired = repair_json_string(json_str)
Repair ==
    /\ rpc = "extracted"
    /\ r_repaired' = repair_json_string(r_text)
    /\ rpc' = "repaired"
    /\ UNCHANGED <<r_text, r_parsed, chunkerVars, compilerVars, generatorVars, scriptVars>>

\* json.loads of the repaired text, then of the original text, then the
\* fallback extraction
ParseAttempts ==
    /\ rpc = "repaired"
    /\ r_parsed' =
          IF json_loads(r_repaired).ok
          THEN [from |-> "repaired", val |-> json_loads(r_repaired).val]
          ELSE IF json_loads(r_text).ok
               THEN [from |-> "original", val |-> json_loads(r_text).val]
               ELSE [from |-> "fallback", val |-> <<>>]
    /\ rpc' = "parsed"
    /\ UNCHANGED <<r_text, r_repaired, chunkerVars, compilerVars, generatorVars, scriptVars>>

SpecRepair == RepairInit /\ [][Repair \/ ParseAttempts]_vars

\* C15: repair_json_string applied to {title: 'X', bullets: ['a','b',]}
\* yields a text that parses as JSON, to the object with title "X" and
\* bullets ["a", "b"].
C15_RepairScenario ==
    (rpc \in {"repaired", "parsed"} /\ r_text = ScenarioText) =>
        /\ json_loads(r_repaired).ok
        /\ json_loads(r_repaired).val = json_loads(ScenarioJSON).val

\* C16: for every text that is valid JSON, the repaired text parses to the
\* same structure as the text itself, and so the parse attempts of
\* _generate_single give the value of the clean reply.
C16_RepairNoOpOnValid ==
    (rpc \in {"repaired", "parsed"} /\ json_loads(r_text).ok) =>
        /\ json_loads(r_repaired).ok
        /\ json_loads(r_repaired).val = json_loads(r_text).val
        /\ rpc = "parsed" => r_parsed.val = json_loads(r_text).val

\* ------------------------------------------------------------------------
\* GroqScriptGenerator._call_groq_api (script_generator.py)
\* ------------------------------------------------------------------------
SCRIPT_MAX_RETRIES == 3
BASE_WAIT_TIME == 2

Contains(str, sub) ==
    \E i \in 1..(Len(str) - Len(sub) + 1) : SubSeq(str, i, i + Len(sub) - 1) = sub

\* a test that takes every error for a rate limit
IsRateLimit_AnyError(error_str) == TRUE

\* "429" in error_str or "Too Many Requests" in error_str
IsRateLimit(error_str) == Contains(error_str, "429") \/ Contains(error_str, "Too Many Requests")

\* a backoff that does not grow
wait_time_Constant(retries) == BASE_WAIT_TIME

\* wait_time = base_wait_time * (2 ** (retry_count - 1))
wait_time(retries) == BASE_WAIT_TIME * 2^(retries - 1)

\* what a chat.completions.create call gives: a reply, or an exception with
\* its message
ScriptOutcomes ==
    {[ok |-> TRUE, text |-> t] : t \in {"{\"scripts\": []}", ""}}
    \cup {[ok |-> FALSE, text |-> e] :
            e \in {"Error code: 429 - rate limit reached", "Too Many Requests",
                   "Connection error", "Error code: 500", "Invalid API Key"}}

ScriptInit ==
    /\ ChunkerIdle
    /\ CompilerIdle
    /\ GeneratorIdle
    /\ RepairIdle
    \* the arguments the callers pass: max_tokens is between 6000 and 8000,
    \* and chunk_index and total_chunks are 0 outside the chunked mode
    /\ s_args \in {[max_tokens |-> m, chunk_index |-> c[1], total_chunks |-> c[2]] :
                      m \in {6000, 8000}, c \in {<<0, 0>>, <<0, 2>>, <<1, 2>>}}
    /\ s_retry_count = 0
    /\ s_log = <<>>
    /\ s_waits = <<>>
    /\ s_result = <<>>
    /\ s_error = ""
    /\ spc = "calling"
    /\ script_slides = <<>> /\ script_chunk_idx = 0 /\ all_scripts = <<>>
    /\ failed_chunks = <<>> /\ attempts = <<>> /\ script_result = <<>> /\ gpc = "idle"

\* one pass of the while loop: the call, and the handling of its exception
\* with the sleep before the next pass
CallGroqApi ==
    /\ spc = "calling"
    /\ s_retry_count < SCRIPT_MAX_RETRIES
    /\ \E out \in ScriptOutcomes :
         /\ s_log' = Append(s_log, out)
         /\ IF out.ok
            THEN /\ s_result' = <<out.text>>
                 /\ spc' = "returned"
                 /\ UNCHANGED <<s_retry_count, s_waits, s_error>>
            ELSE IF IsRateLimit(out.text)
                 THEN /\ s_retry_count' = s_retry_count + 1
                      /\ IF s_retry_count + 1 < SCRIPT_MAX_RETRIES
                         THEN /\ s_waits' = Append(s_waits, wait_time(s_retry_count + 1))
                              /\ UNCHANGED <<s_result, s_error, spc>>
                         ELSE /\ s_error' = out.text
                              /\ spc' = "raised"
                              /\ UNCHANGED <<s_result, s_waits>>
                 ELSE /\ s_error' = out.text
                      /\ spc' = "raised"
                      /\ UNCHANGED <<s_retry_count, s_result, s_waits>>
    /\ UNCHANGED <<s_args, script_slides, script_chunk_idx, all_scripts, failed_chunks,
                   attempts, script_result, gpc,
                   chunkerVars, compilerVars, generatorVars, repairVars>>

\* the method runs on until it returns or raises
SpecScript == ScriptInit /\ [][CallGroqApi]_vars /\ WF_vars(CallGroqApi)

\* ------------------------------------------------------------------------
\* The newline scan of repair_json_string on its own (lines 84-106), on the
\* character sequences over a double quote, a backslash, a newline and
\* another character
\* ------------------------------------------------------------------------
MaxScanLen == 5

ScanInit ==
    /\ ChunkerIdle
    /\ CompilerIdle
    /\ GeneratorIdle
    /\ ScriptIdle
    /\ r_text \in SeqsUpTo({DQ, BS, "\n", "x"}, MaxScanLen)
    /\ r_repaired = <<>>
    /\ r_parsed = <<>>
    /\ rpc = "scan"

\* the while loop of lines 87-105 and the join of line 106
Scan ==
    /\ rpc = "scan"
    /\ r_repaired' = EscapeNewlines(r_text, 1, FALSE)
    /\ rpc' = "scanned"
    /\ UNCHANGED <<r_text, r_parsed, chunkerVars, compilerVars, generatorVars, scriptVars>>

SpecScan == ScanInit /\ [][Scan]_vars

\* ------------------------------------------------------------------------
\* GroqScriptGenerator._generate_scripts_chunked (script_generator.py)
\* A script is known by its slide_number and its slide_title.
\* ------------------------------------------------------------------------
MaxScriptSlides == 51

\* lines 163-168: the chunk size for num_slides slides
ScriptChunkSize(n) == IF n > 50 THEN 10 ELSE IF n > 30 THEN 12 ELSE 15

\* fallback scripts, one short of the number asked for
_create_fallback_scripts_OneShort(n) ==
    [i \in 1..(n - 1) |-> [slide_number |-> i, slide_title |-> "Script Generation Error"]]

_create_fallback_scripts(n) ==
    [i \in 1..n |-> [slide_number |-> i, slide_title |-> "Script Generation Error"]]

\* generate_script_for_slides hands over presentations of more than 15 slides
ScriptChunkedInit ==
    /\ ChunkerIdle
    /\ CompilerIdle
    /\ GeneratorIdle
    /\ RepairIdle
    /\ s_args = [max_tokens |-> 0, chunk_index |-> 0, total_chunks |-> 0]
    /\ s_retry_count = 0 /\ s_log = <<>> /\ s_waits = <<>>
    /\ s_result = <<>> /\ s_error = "" /\ spc = "idle"
    /\ \E n \in 16..MaxScriptSlides : script_slides = [i \in 1..n |-> i]
    /\ script_chunk_idx = 0
    /\ all_scripts = <<>>
    /\ failed_chunks = <<>>
    /\ attempts = <<>>
    /\ script_result = <<>>
    /\ gpc = "loop"

\* one pass of the loop over the chunks (lines 179-214) with the call of
\* _generate_chunk_scripts (lines 233-309): its one chat.completions.create
\* call either raises (here with a rate-limit message; the loop does not
\* look at the message) or gives a reply.  A reply is a JSON array of
\* scripts numbered as the prompt numbers the chunk's slides (from 1), or
\* numbered through the presentation, or an array with one script only, or
\* a text _parse_script_response cannot parse, for which it returns
\* fallback scripts.
ProcessChunk ==
    /\ gpc = "loop"
    /\ LET n == Len(script_slides)
           size == ScriptChunkSize(n)
           num_chunks == (n + size - 1) \div size
           start_idx == script_chunk_idx * size
           end_idx == IF (script_chunk_idx + 1) * size < n
                      THEN (script_chunk_idx + 1) * size ELSE n
           slides_of_chunk == SubSeq(script_slides, start_idx + 1, end_idx)
           len == Len(slides_of_chunk)
           chunk_num == script_chunk_idx + 1
           Scripts(kind) ==
               CASE kind = "numbered_in_chunk" ->
                       [i \in 1..len |-> [slide_number |-> i, slide_title |-> "Slide"]]
                 [] kind = "numbered_in_deck" ->
                       [i \in 1..len |-> [slide_number |-> start_idx + i,
                                          slide_title |-> "Slide"]]
                 [] kind = "one_script" ->
                       <<[slide_number |-> 1, slide_title |-> "Slide"]>>
                 [] OTHER -> _create_fallback_scripts(len)
       IN  /\ script_chunk_idx < num_chunks
           /\ \E out \in {[kind |-> k, text |-> ""] :
                             k \in {"numbered_in_chunk", "numbered_in_deck", "one_script",
                                    "unparseable"}}
                         \cup {[kind |-> "raised",
                                text |-> "Error code: 429 - rate limit reached"]} :
                /\ attempts' = Append(attempts,
                       [chunk_num |-> chunk_num, slides |-> slides_of_chunk,
                        before |-> Len(all_scripts), kind |-> out.kind, text |-> out.text])
                /\ all_scripts' = all_scripts \o Scripts(out.kind)
                /\ failed_chunks' = IF out.kind = "raised"
                                    THEN Append(failed_chunks, chunk_num)
                                    ELSE failed_chunks
           /\ script_chunk_idx' = script_chunk_idx + 1
    /\ UNCHANGED <<s_args, s_retry_count, s_log, s_waits, s_result, s_error, spc,
                   script_slides, script_result, gpc,
                   chunkerVars, compilerVars, generatorVars, repairVars>>

\* lines 216-231: the dictionary returned after the last chunk
ReturnChunked ==
    /\ gpc = "loop"
    /\ LET n == Len(script_slides)
           size == ScriptChunkSize(n)
           num_chunks == (n + size - 1) \div size
       IN  /\ script_chunk_idx = num_chunks
           /\ script_result' =
                 [success |-> Len(failed_chunks) = 0,
                  scripts |-> all_scripts,
                  metadata |-> [num_slides |-> n, processing_mode |-> "chunked",
                                num_chunks |-> num_chunks, chunk_size |-> size,
                                failed_chunks |-> failed_chunks,
                                partial_success |-> Len(failed_chunks) > 0]]
    /\ gpc' = "returned"
    /\ UNCHANGED <<s_args, s_retry_count, s_log, s_waits, s_result, s_error, spc,
                   script_slides, script_chunk_idx, all_scripts, failed_chunks, attempts,
                   chunkerVars, compilerVars, generatorVars, repairVars>>

\* the loop runs on until the method returns
SpecScriptChunked ==
    /\ ScriptChunkedInit
    /\ [][ProcessChunk \/ ReturnChunked]_vars
    /\ WF_vars(ProcessChunk \/ ReturnChunked)

\* C19: while every call fails with a rate-limit error the calls are at most
\* 3 with waits of 2 s and then 4 s between them, and after the third the
\* rate-limit error is raised; a call that succeeds is the last call and its
\* reply is returned; and the method comes to an end.
C19_RetryPolicy ==
    /\ [](LET n == Len(s_log)
              allLimited == \A i \in 1..n : ~s_log[i].ok /\ IsRateLimit(s_log[i].text)
          IN  /\ allLimited =>
                    /\ n <= 3
                    /\ s_waits = SubSeq(<<2, 4>>, 1, IF n < 3 THEN n ELSE 2)
                    /\ n < 3 => spc = "calling"
                    /\ n = 3 => spc = "raised" /\ s_error = s_log[3].text
              /\ \A i \in 1..n : s_log[i].ok =>
                    /\ i = n
                    /\ spc = "returned"
                    /\ s_result = <<s_log[i].text>>
                    /\ s_error = "")
    /\ <>(spc \in {"returned", "raised"})

\* three rate-limit errors in a row
C19_Witness ==
    /\ Len(s_log) = 3
    /\ \A i \in 1..3 : ~s_log[i].ok /\ IsRateLimit(s_log[i].text)
    /\ s_waits = <<2, 4>>
    /\ spc = "raised"

C22_QuickReturn ==
    (cpc # "start" /\ estimate_tokens(content) <= max_tokens) =>
        /\ cpc = "returned"
        /\ chunks = <<content>>
        /\ stagesRun = {}

\* a content of several tokens, with a page break, returned whole
C22_Witness ==
    /\ cpc = "returned"
    /\ estimate_tokens(content) <= max_tokens
    /\ Len(content) >= 3
    /\ \E i \in 1..Len(content) : content[i] = PB
    /\ chunks = <<content>>

\* C23: the retry loop of a chunk in _generate_chunked makes at most
\* max_retries + 1 = 3 generation calls for the chunk, whatever the calls
\* give (an exception, no JSON array, an unparseable array, an array that
\* parses to an empty list, a list of slides), also when the fallback
\* extraction yields no slide.  It is stated for the first chunk of a run
\* in which generate() went straight to _generate_chunked: there every
\* generation call made so far is a call for that chunk.
C23_BoundedRetries ==
    (pc = "chunk_loop" /\ stack = <<"generate", "_generate_chunked">> /\ chunk_idx = 1) =>
        api_calls <= MAX_RETRIES + 1

\* C24: when chunk_content has returned for a content above the budget, no
\* chunk other than the first has fewer than MIN_WORDS_PER_CHUNK words; this
\* covers the chunks made by the forced word-level split of the final
\* safety pass.
C24_MinWords ==
    (cpc = "returned" /\ estimate_tokens(content) > max_tokens) =>
        \A i \in 2..Len(chunks) : Len(Words(chunks[i])) >= MIN_WORDS_PER_CHUNK

\* C25: after the normalisation of a chunk's slides and _clean_slide_metadata
\* no text the audience sees (title, subtitle, each bullet, speaker notes)
\* mentions 'chunk' in any letter case, and none of the keys chunk,
\* chunk_number, chunk_idx, chunk_id, from_chunk remains; this covers the
\* bullets synthesized from the subtitle or the content.
C25_NoChunkText ==
    \A c \in 1..Len(all_chunk_slides) : \A i \in 1..Len(all_chunk_slides[c]) :
        LET slide == all_chunk_slides[c][i]
            bullets == Get(slide, "bullets", <<>>)
        IN  /\ DOMAIN slide \cap CHUNK_KEYS = {}
            /\ \A k \in {"title", "subtitle", "speaker_notes"} :
                  ~MentionsChunk(Get(slide, k, ""))
            /\ \A b \in 1..Len(bullets) : ~MentionsChunk(bullets[b])

\* C26: in _generate_scripts_chunked a rate-limit error of a chunk's
\* generation call is retried with backoff up to the ceiling of 3 attempts,
\* and only then is the chunk recorded in failed_chunks and replaced by
\* fallback scripts: a chunk recorded as failed has had 3 calls.
C26_ChunkRetried ==
    \A c \in 1..Len(failed_chunks) :
        Cardinality({a \in 1..Len(attempts) :
                        /\ attempts[a].chunk_num = failed_chunks[c]
                        /\ attempts[a].kind = "raised"
                        /\ IsRateLimit(attempts[a].text)}) = SCRIPT_MAX_RETRIES

\* C27 (sibling isolation): when _generate_scripts_chunked has returned,
\* every chunk number 1..num_chunks was attempted exactly once, in
\* increasing order; the chunks are consecutive ranges of the slide list,
\* of at most chunk_size slides each, that together make up the list; a
\* chunk whose generation raised has exactly len(chunk_slides) fallback
\* scripts at its place in the scripts; failed_chunks lists exactly the
\* chunks that raised, in increasing order; partial_success says that
\* failed_chunks is non-empty and success that it is empty.
C27_SiblingIsolation ==
    gpc = "returned" =>
        LET meta == script_result.metadata
            num_chunks == meta.num_chunks
            scripts == script_result.scripts
            raisedAt == {k \in 1..Len(attempts) : attempts[k].kind = "raised"}
        IN  /\ Len(attempts) = num_chunks
            /\ \A k \in 1..Len(attempts) : attempts[k].chunk_num = k
            /\ Flatten([k \in 1..Len(attempts) |-> attempts[k].slides]) = script_slides
            /\ \A k \in 1..Len(attempts) :
                  Len(attempts[k].slides) \in 1..meta.chunk_size
            /\ \A k \in raisedAt :
                  LET from == attempts[k].before
                      to == IF k < Len(attempts) THEN attempts[k + 1].before
                            ELSE Len(scripts)
                  IN  /\ to - from = Len(attempts[k].slides)
                      /\ \A i \in (from + 1)..to :
                            scripts[i].slide_title = "Script Generation Error"
            /\ {meta.failed_chunks[i] : i \in 1..Len(meta.failed_chunks)} = raisedAt
            /\ \A i \in 1..(Len(meta.failed_chunks) - 1) :
                  meta.failed_chunks[i] < meta.failed_chunks[i + 1]
            /\ meta.partial_success = (meta.failed_chunks # <<>>)
            /\ script_result.success = (meta.failed_chunks = <<>>)

\* three chunks or more: the first replies with one script only, the second
\* raises, the third replies with all its scripts
C27_Witness ==
    /\ gpc = "returned"
    /\ Len(attempts) >= 3
    /\ attempts[1].kind = "one_script"
    /\ attempts[2].kind = "raised"
    /\ attempts[3].kind = "numbered_in_chunk"
    /\ script_result.metadata.failed_chunks = <<2>>
    /\ script_result.metadata.partial_success
    /\ ~script_result.success

\* C30: the scripts returned by _generate_scripts_chunked for a
\* presentation of more than 15 slides have the slide_number values
\* 1..num_slides in list order, each once; this covers the fallback scripts
\* of a failed chunk other than the first.
C30_ScriptNumbering ==
    gpc = "returned" =>
        /\ Len(script_result.scripts) = Len(script_slides)
        /\ \A i \in 1..Len(script_result.scripts) :
              script_result.scripts[i].slide_number = i

\* C28: on every character sequence over a double quote, a backslash, a
\* newline and another character in which backslashes occur only inside
\* string literals, the newline scan of repair_json_string gives what the
\* three-state machine (Normal, InString, Escaped) gives: a newline is
\* replaced by the two-character escape exactly when the machine is in
\* InString, the machine changes between Normal and InString exactly at
\* the double quotes it does not read in Escaped (so also at a closing
\* quote that directly follows an escaped backslash), an escaped sequence
\* is never altered, and every other character is copied in order.
C28_ScanIsMachine ==
    rpc = "scanned" =>
        LET T == r_text
            \* the state of the machine before it reads T[i]
            st[i \in 1..(Len(T) + 1)] ==
                IF i = 1 THEN "Normal"
                ELSE CASE st[i - 1] = "Escaped" -> "InString"
                       [] st[i - 1] = "InString" /\ T[i - 1] = BS -> "Escaped"
                       [] st[i - 1] = "InString" /\ T[i - 1] = DQ -> "Normal"
                       [] st[i - 1] = "Normal" /\ T[i - 1] = DQ -> "InString"
                       [] OTHER -> st[i - 1]
            machine == Flatten([i \in 1..Len(T) |->
                           IF st[i] = "InString" /\ T[i] = "\n" THEN <<BS, "n">>
                           ELSE <<T[i]>>])
        IN  (\A i \in 1..Len(T) : T[i] = BS => st[i] # "Normal") =>
                r_repaired = machine

\* C29: generate() ends with bounded mutual recursion.  The methods nested
\* inside generate() are at most 3 (_generate_single, _generate_chunked,
\* _generate_single), of which at most two are _generate_single, each with
\* one generation call: no more than one such call is made before the loop
\* over the chunks starts, and no more than two when it never starts.  Every
\* step outside that loop enters a further method, enters the loop, or ends
\* generate() with a document or an exception, so that generate() ends
\* whenever the loops over the chunks finish.  enable_chunking changes only
\* from False to True, hence at most once.
C29_BoundedRecursion ==
    /\ [](/\ Len(stack) <= 1 + 3
          /\ Cardinality({i \in 1..Len(stack) : stack[i] = "_generate_single"}) <= 2
          /\ (pc = "chunked" => api_calls <= 1)
          /\ (Len(gen_chunks) <= 1 => api_calls <= 2)
          /\ (pc = "returned" => result # <<>> /\ error = "")
          /\ (pc = "raised" => error # ""))
    /\ [][/\ pc # "chunk_loop" =>
                \/ Len(stack') > Len(stack)
                \/ pc' = "chunk_loop"
                \/ pc' \in {"returned", "raised"}
          /\ enable_chunking' # enable_chunking => (~enable_chunking /\ enable_chunking')]_vars

\* the deepest nesting: a rate limit on the single request turns chunking
\* on, the content gives one chunk, and the second single request is made
C29_Witness ==
    /\ stack = <<"generate", "_generate_single", "_generate_chunked", "_generate_single">>
    /\ pc = "single"
    /\ api_calls = 1
    /\ enable_chunking
    /\ ~AutoChunking(raw_content, num_slides, chunking_arg)

====
